---- MODULE Spec2Model ----
(***************************************************************************)
(* Escape Road: the pursuit simulation core (player car, police chasers,   *)
(* traffic, collision system, containment detector) as a state machine.    *)
(*                                                                         *)
(* Numbers are fixed-point integers: lengths in 1/1000 world unit, speeds  *)
(* in 1/1000 unit per second, times in milliseconds, angles in             *)
(* milliradians, dimensionless factors in 1/1000.  The JavaScript source   *)
(* computes in IEEE doubles; every product and quotient is rounded to the  *)
(* nearest 1/1000 here.                                                    *)
(***************************************************************************)
EXTENDS Integers, Sequences, FiniteSets, TLC

VARIABLES
  player,        \* PlayerCar fields
  enemies,       \* Game.enemies: sequence of EnemyChaser records
  traffic,       \* TrafficManager: trafficCars (sequence of TrafficCar records) and spawnTimer
  buildings,     \* City.getBuildings(): sequence of footprints (read-only)
  cs,            \* CollisionSystem fields (cooldown, trapped-check timer) and its last detector evaluation
  wanted,        \* WantedSystem fields: currentWantedLevel, survivalTime, lastSpawnTime
  game,          \* Game fields: isPlaying, loop position within _update, tick count, tick delta
  hist,          \* history: the player at the start of the tick, the crash recovery in progress
  call           \* a CollisionSystem method called on its own: its arguments and its outcome

vars == <<player, enemies, traffic, buildings, cs, wanted, game, hist, call>>

(***************************************************************************)
(* Arithmetic helpers                                                      *)
(***************************************************************************)
Abs(a) == IF a < 0 THEN -a ELSE a

\* Math.sign
Sign(a) == IF a > 0 THEN 1 ELSE IF a < 0 THEN -1 ELSE 0

Min(a, b) == IF a < b THEN a ELSE b

Max(a, b) == IF a > b THEN a ELSE b

\* a / b rounded to the nearest integer (ties away from zero)
Div(a, b) == Sign(a) * Sign(b) * ((2 * Abs(a) + Abs(b)) \div (2 * Abs(b)))

\* a * f where f is a factor in 1/1000
Mul(a, f) == Div(a * f, 1000)

RECURSIVE SqrtSearch(_, _, _)
SqrtSearch(n, lo, hi) ==
  IF lo >= hi THEN lo
  ELSE LET mid == (lo + hi + 1) \div 2
       IN IF mid * mid <= n THEN SqrtSearch(n, mid, hi) ELSE SqrtSearch(n, lo, mid - 1)

\* Math.sqrt on a non-negative integer (floor)
Sqrt(n) == SqrtSearch(n, 0, 46340)

\* Math.sqrt(dx * dx + dz * dz); long vectors are measured in 16/1000 steps
\* so that the squares stay inside the 32-bit range
Hypot(dx, dz) ==
  IF Max(Abs(dx), Abs(dz)) > 30000
  THEN 16 * Sqrt((Abs(dx) \div 16) * (Abs(dx) \div 16) + (Abs(dz) \div 16) * (Abs(dz) \div 16))
  ELSE Sqrt(dx * dx + dz * dz)

\* Math.PI in milliradians
PI == 3142

TwoPI == 2 * PI

HalfPI == PI \div 2

\* sine of an angle in [0, PI] (Bhaskara's rational approximation, exact at 0, PI/2 and PI)
SinPos(a) == LET P == a * (PI - a) IN Div(16 * P, Div(5 * PI * PI - 4 * P, 1000))

\* Math.sin, result in 1/1000
Sin(a) == LET r == a % TwoPI IN IF r <= PI THEN SinPos(r) ELSE -SinPos(r - PI)

\* Math.cos, result in 1/1000
Cos(a) == Sin(a + HalfPI)

\* arctangent of t/1000 for t in 0..1000, in milliradians
AtanUnit(t) == Div(t * (785 + Div(273 * (1000 - t), 1000)), 1000)

\* Math.atan2(y, x) in milliradians, in (-PI, PI]
Atan2(y, x) ==
  IF x = 0 /\ y = 0 THEN 0
  ELSE LET ay == Abs(y)
           ax == Abs(x)
           base == IF ay <= ax THEN AtanUnit(Div(1000 * ay, ax))
                   ELSE HalfPI - AtanUnit(Div(1000 * ax, ay))
           q == IF x >= 0 THEN base ELSE PI - base
       IN IF y >= 0 THEN q ELSE -q

\* helpers.js clamp(value, min, max)
clamp(v, lo, hi) == Max(lo, Min(hi, v))

\* helpers.js lerp(a, b, t), t in 1/1000
lerp(a, b, t) == a + Mul(b - a, t)

\* helpers.js checkAABBCollision(box1, box2) on the x and z axes (every box
\* of the simulation spans y from 0 upwards, so the y axis always overlaps)
checkAABBCollision(a, b) ==
  /\ a.minx <= b.maxx
  /\ a.maxx >= b.minx
  /\ a.minz <= b.maxz
  /\ a.maxz >= b.minz

\* a box of half extents (hw, hd) around (x, z)
Box(x, z, hw, hd) == [minx |-> x - hw, maxx |-> x + hw, minz |-> z - hd, maxz |-> z + hd]

(***************************************************************************)
(* PLAYER_CONFIG and ENEMY_CONFIG (utils/constants.js)                     *)
(***************************************************************************)
MAX_SPEED == 28000

AUTO_FORWARD_SPEED == 22000

\* ACCELERATION * 60: speed gained per second of simulation time
ACCELERATION_PER_S == 48000

\* ROTATION_SPEED * 60: radians turned per second of steering, in 1/1000
ROTATION_PER_S == 6000

BOOST_MULTIPLIER == 1800

BOOST_DURATION == 2000

BOOST_COOLDOWN == 5000

\* PLAYER_CONFIG.WIDTH / 2 + padding and LENGTH / 2 + padding of PlayerCar.getBoundingBox
PlayerHalfWidth == 1500

PlayerHalfLength == 2250

\* ENEMY_CONFIG.WIDTH / 2 + padding and LENGTH / 2 + padding of EnemyChaser.getBoundingBox
EnemyHalfWidth == 1600

EnemyHalfLength == 2500

ENEMY_INITIAL_SPEED == 18000

ENEMY_CATCH_UP_SPEED == 23000

ENEMY_MAX_SPEED == 32000

ENEMY_MAX_DISTANCE == 50000

\* ENEMY_CONFIG.ROTATION_SPEED in 1/1000
ENEMY_ROTATION_SPEED == 60

(***************************************************************************)
(* PlayerCar                                                               *)
(***************************************************************************)
\* the input snapshot of InputManager.getInput()
NoInput == [forward |-> FALSE, backward |-> FALSE, left |-> FALSE, right |-> FALSE, boost |-> FALSE]

\* PlayerCar constructor
NewPlayer ==
  [ x |-> 0, z |-> 0, vx |-> 0, vz |-> 0, rotation |-> PI, speed |-> 0, targetSpeed |-> 0,
    isAlive |-> TRUE, boostActive |-> FALSE, boostCooldownRemaining |-> 0, boostTimeRemaining |-> 0,
    isCrashed |-> FALSE, crashStunTimer |-> 0, crashReverseTimer |-> 0,
    crashReverseDirection |-> [x |-> 0, z |-> 0], isTrapped |-> FALSE ]

\* a die() that also clears the trapped flag, for comparison
dieAndRelease(p) == [p EXCEPT !.isAlive = FALSE, !.speed = 0, !.isTrapped = FALSE]

\* PlayerCar.die
die(p) == [p EXCEPT !.isAlive = FALSE, !.speed = 0]

\* PlayerCar.setTrapped
setTrapped(p) == IF ~p.isTrapped THEN [p EXCEPT !.isTrapped = TRUE] ELSE p

\* PlayerCar.getBoundingBox
PlayerBox(p) == Box(p.x, p.z, PlayerHalfWidth, PlayerHalfLength)

\* PlayerCar.getSpeed
getSpeed(p) == Abs(p.speed)

\* an _updateBoost whose activation test leaves the cooldown out, for comparison
updateBoostNoCooldown(p, input, dt) ==
  LET cd == IF p.boostCooldownRemaining > 0 THEN p.boostCooldownRemaining - dt
            ELSE p.boostCooldownRemaining
      p1 == [p EXCEPT !.boostCooldownRemaining = cd]
      p2 == IF input.boost /\ ~p1.boostActive
            THEN [p1 EXCEPT !.boostActive = TRUE, !.boostTimeRemaining = BOOST_DURATION]
            ELSE p1
  IN IF p2.boostActive
     THEN LET left == p2.boostTimeRemaining - dt
          IN IF left <= 0
             THEN [p2 EXCEPT !.boostTimeRemaining = left, !.boostActive = FALSE,
                             !.boostCooldownRemaining = BOOST_COOLDOWN]
             ELSE [p2 EXCEPT !.boostTimeRemaining = left]
     ELSE p2

\* PlayerCar.activateBoost / deactivateBoost inside _updateBoost
updateBoost(p, input, dt) ==
  LET cd == IF p.boostCooldownRemaining > 0 THEN p.boostCooldownRemaining - dt
            ELSE p.boostCooldownRemaining
      p1 == [p EXCEPT !.boostCooldownRemaining = cd]
      p2 == IF input.boost /\ cd <= 0 /\ ~p1.boostActive
            THEN [p1 EXCEPT !.boostActive = TRUE, !.boostTimeRemaining = BOOST_DURATION]
            ELSE p1
  IN IF p2.boostActive
     THEN LET left == p2.boostTimeRemaining - dt
          IN IF left <= 0
             THEN [p2 EXCEPT !.boostTimeRemaining = left, !.boostActive = FALSE,
                             !.boostCooldownRemaining = BOOST_COOLDOWN]
             ELSE [p2 EXCEPT !.boostTimeRemaining = left]
     ELSE p2

\* an _applyInput without the final clamp to the speed limits, for comparison
applyInputNoClamp(p, input, dt) ==
  LET target == IF input.backward THEN -Mul(AUTO_FORWARD_SPEED, 600)
                ELSE IF p.boostActive THEN Mul(MAX_SPEED, BOOST_MULTIPLIER)
                ELSE AUTO_FORWARD_SPEED
      acceleration == Div(ACCELERATION_PER_S * dt, 1000)
      s1 == IF p.speed < target THEN Min(p.speed + acceleration, target)
            ELSE IF p.speed > target THEN Max(p.speed - acceleration, target)
            ELSE p.speed
      r1 == IF input.left THEN p.rotation + Div(ROTATION_PER_S * dt, 1000) ELSE p.rotation
      r2 == IF input.right THEN r1 - Div(ROTATION_PER_S * dt, 1000) ELSE r1
  IN [p EXCEPT !.targetSpeed = target, !.speed = s1, !.rotation = r2,
               !.vx = Mul(s1, Sin(r2)), !.vz = Mul(s1, Cos(r2))]

\* an _applyInput that adds or subtracts the whole acceleration step without
\* stopping at the target speed, for comparison
applyInputOvershoot(p, input, dt) ==
  LET target == IF input.backward THEN -Mul(AUTO_FORWARD_SPEED, 600)
                ELSE IF p.boostActive THEN Mul(MAX_SPEED, BOOST_MULTIPLIER)
                ELSE AUTO_FORWARD_SPEED
      acceleration == Div(ACCELERATION_PER_S * dt, 1000)
      s1 == IF p.speed < target THEN p.speed + acceleration
            ELSE IF p.speed > target THEN p.speed - acceleration
            ELSE p.speed
      maxForwardSpeed == IF p.boostActive THEN Mul(MAX_SPEED, BOOST_MULTIPLIER) ELSE MAX_SPEED
      maxReverseSpeed == -Mul(AUTO_FORWARD_SPEED, 600)
      s2 == clamp(s1, maxReverseSpeed, maxForwardSpeed)
      r1 == IF input.left THEN p.rotation + Div(ROTATION_PER_S * dt, 1000) ELSE p.rotation
      r2 == IF input.right THEN r1 - Div(ROTATION_PER_S * dt, 1000) ELSE r1
  IN [p EXCEPT !.targetSpeed = target, !.speed = s2, !.rotation = r2,
               !.vx = Mul(s2, Sin(r2)), !.vz = Mul(s2, Cos(r2))]

\* PlayerCar._applyInput
applyInput(p, input, dt) ==
  LET target == IF input.backward THEN -Mul(AUTO_FORWARD_SPEED, 600)
                ELSE IF p.boostActive THEN Mul(MAX_SPEED, BOOST_MULTIPLIER)
                ELSE AUTO_FORWARD_SPEED
      acceleration == Div(ACCELERATION_PER_S * dt, 1000)
      s1 == IF p.speed < target THEN Min(p.speed + acceleration, target)
            ELSE IF p.speed > target THEN Max(p.speed - acceleration, target)
            ELSE p.speed
      maxForwardSpeed == IF p.boostActive THEN Mul(MAX_SPEED, BOOST_MULTIPLIER) ELSE MAX_SPEED
      maxReverseSpeed == -Mul(AUTO_FORWARD_SPEED, 600)
      s2 == clamp(s1, maxReverseSpeed, maxForwardSpeed)
      r1 == IF input.left THEN p.rotation + Div(ROTATION_PER_S * dt, 1000) ELSE p.rotation
      r2 == IF input.right THEN r1 - Div(ROTATION_PER_S * dt, 1000) ELSE r1
  IN [p EXCEPT !.targetSpeed = target, !.speed = s2, !.rotation = r2,
               !.vx = Mul(s2, Sin(r2)), !.vz = Mul(s2, Cos(r2))]

\* the 0.92 damping and the 0.01 snap of PlayerCar._updatePosition
damp(v) == LET d == Mul(v, 920) IN IF Abs(d) < 10 THEN 0 ELSE d

\* PlayerCar._updatePosition
updatePosition(p, dt) ==
  [p EXCEPT !.x = @ + Div(p.vx * dt, 1000), !.z = @ + Div(p.vz * dt, 1000),
            !.vx = damp(p.vx), !.vz = damp(p.vz)]

\* the eased speed profile of the auto-reverse: the multiplier (1/1000) at a
\* reverse timer value (ms); reverseProgress = 1 - crashReverseTimer / 0.8
speedMultiplier(timer) ==
  LET reverseProgress == 1000 - Div(timer * 1000, 800)
  IN IF reverseProgress < 300 THEN Div(reverseProgress * 1000, 300)
     ELSE IF reverseProgress > 700 THEN Div((1000 - reverseProgress) * 1000, 300)
     ELSE 1000

\* PlayerCar.update, phase 1 of the crash physics: the stun
updateStunned(p, dt) ==
  [p EXCEPT !.vx = 0, !.vz = 0, !.speed = 0, !.crashStunTimer = @ - dt]

\* PlayerCar.update, phase 2 of the crash physics: the auto-reverse
updateReversing(p, dt) ==
  LET maxReverseSpeed == 12000
      currentReverseSpeed == Mul(maxReverseSpeed, speedMultiplier(p.crashReverseTimer))
      d == p.crashReverseDirection
      dirLength == Hypot(d.x, d.z)
      normX == Div(d.x * 1000, dirLength)
      normZ == Div(d.z * 1000, dirLength)
      p1 == IF dirLength > 10
            THEN [p EXCEPT !.x = @ + Div(Mul(currentReverseSpeed, normX) * dt, 1000),
                           !.z = @ + Div(Mul(currentReverseSpeed, normZ) * dt, 1000),
                           !.vx = Mul(currentReverseSpeed, normX),
                           !.vz = Mul(currentReverseSpeed, normZ)]
            ELSE p
      p2 == [p1 EXCEPT !.speed = 0, !.crashReverseTimer = @ - dt]
  IN IF p2.crashReverseTimer <= 0
     THEN [p2 EXCEPT !.isCrashed = FALSE, !.crashReverseTimer = 0, !.crashStunTimer = 0,
                     !.crashReverseDirection = [x |-> 0, z |-> 0],
                     !.vx = Mul(p2.vx, 300), !.vz = Mul(p2.vz, 300)]
     ELSE p2

\* PlayerCar.update(deltaTime) after setInput(input); the mesh is loaded and
\* nothing in this core starts the falling animation
PlayerUpdate(p, input, dt) ==
  IF ~p.isAlive THEN p
  ELSE IF p.isTrapped THEN die(p)
  ELSE IF p.isCrashed /\ p.crashStunTimer > 0 THEN updateStunned(p, dt)
  ELSE IF p.isCrashed /\ p.crashReverseTimer > 0 THEN updateReversing(p, dt)
  ELSE updatePosition(applyInput(updateBoost(p, input, dt), input, dt), dt)

\* the phase of the crash/recovery state machine a player record is in
Phase(p) ==
  IF ~p.isCrashed THEN "Normal"
  ELSE IF p.crashStunTimer > 0 THEN "Stunned"
  ELSE IF p.crashReverseTimer > 0 THEN "Reversing"
  ELSE "Normal"

(***************************************************************************)
(* EnemyChaser (police car)                                                *)
(***************************************************************************)
\* EnemyChaser constructor at a spawn offset; ox is pursuitOffset.x (drawn
\* once, (Math.random() - 0.5) * 10)
NewEnemy(x, z, ox) ==
  [ x |-> x, z |-> z, vx |-> 0, vz |-> 0, rotation |-> 0, targetRotation |-> 0,
    speed |-> ENEMY_INITIAL_SPEED, aggressionLevel |-> 30, pursuitOffsetX |-> ox ]

\* EnemyChaser.getBoundingBox
EnemyBox(e) == Box(e.x, e.z, EnemyHalfWidth, EnemyHalfLength)

\* the building footprint padded by a radius on each side
PaddedBox(b, radius) == Box(b.x, b.z, b.width \div 2 + radius, b.depth \div 2 + radius)

\* the rotation difference brought into [-PI, PI] by the two while loops
RECURSIVE NormalizeRot(_)
NormalizeRot(d) ==
  IF d > PI THEN NormalizeRot(d - TwoPI)
  ELSE IF d < -PI THEN NormalizeRot(d + TwoPI)
  ELSE d

\* strategyVariant = (pursuitOffset.x + 10) / 20, in 1/1000
strategyVariant(e) == Div(e.pursuitOffsetX + 10000, 20)

\* the strategy branch taken by _updatePursuitAI
strategy(e) ==
  IF strategyVariant(e) < 330 THEN "headOn"
  ELSE IF strategyVariant(e) < 660 THEN "leftFlank"
  ELSE "rightFlank"

\* the peer-separation sum of _updatePursuitAI over the other police cars
RECURSIVE separationSum(_, _, _)
separationSum(e, others, k) ==
  IF k > Len(others) THEN [x |-> 0, z |-> 0]
  ELSE LET rest == separationSum(e, others, k + 1)
           dxo == e.x - others[k].x
           dzo == e.z - others[k].z
           d == Hypot(dxo, dzo)
       IN IF (dxo # 0 \/ dzo # 0) /\ Abs(dxo) < 8000 /\ Abs(dzo) < 8000
             /\ dxo * dxo + dzo * dzo < 8000 * 8000 /\ d > 0
          THEN [x |-> rest.x + Div(dxo * 3000, d), z |-> rest.z + Div(dzo * 3000, d)]
          ELSE rest

\* EnemyChaser._updatePursuitAI: target point, heading and speed for this tick
updatePursuitAI(e, others, p) ==
  LET steer(targetRotation, s1) ==
        [e EXCEPT !.targetRotation = targetRotation,
                  !.rotation = @ + Mul(NormalizeRot(targetRotation - e.rotation), ENEMY_ROTATION_SPEED),
                  !.speed = clamp(s1, ENEMY_INITIAL_SPEED, ENEMY_MAX_SPEED)]
      aim(t2, sep, s1) ==
        steer(Atan2(t2.x + Mul(sep.x, 1500) - e.x, t2.z + Mul(sep.z, 1500) - e.z), s1)
      chase(playerSpeed, dx, dz, distToPlayer) ==
        LET lookAhead == IF playerSpeed > 1000
                         THEN Min(2000, Div(distToPlayer * 1000, playerSpeed * 15))
                         ELSE 300
            intercept == [x |-> p.x + Div(p.vx * lookAhead, 1000),
                          z |-> p.z + Div(p.vz * lookAhead, 1000)]
            toPlayer == IF distToPlayer = 0 THEN [x |-> dx, z |-> dz]
                        ELSE [x |-> Div(dx * 1000, distToPlayer), z |-> Div(dz * 1000, distToPlayer)]
            perp == IF playerSpeed = 0 THEN [x |-> -p.vz, z |-> p.vx]
                    ELSE [x |-> -Div(p.vz * 1000, playerSpeed), z |-> Div(p.vx * 1000, playerSpeed)]
            t1 == IF strategy(e) = "headOn"
                  THEN [x |-> p.x + toPlayer.x * 12, z |-> p.z + toPlayer.z * 12]
                  ELSE IF strategy(e) = "leftFlank"
                  THEN [x |-> intercept.x + perp.x * 10, z |-> intercept.z + perp.z * 10]
                  ELSE [x |-> intercept.x - perp.x * 10, z |-> intercept.z - perp.z * 10]
        IN aim(IF distToPlayer < 15000
               THEN [x |-> p.x + Mul(p.vx, 150), z |-> p.z + Mul(p.vz, 150)]
               ELSE t1,
               separationSum(e, others, 1),
               IF distToPlayer > ENEMY_MAX_DISTANCE - 10000 THEN ENEMY_CATCH_UP_SPEED
               ELSE IF distToPlayer < 8000
               THEN Max(e.speed - Mul(e.aggressionLevel, 500), ENEMY_INITIAL_SPEED)
               ELSE lerp(e.speed, Max(getSpeed(p) + 5000, Mul(ENEMY_INITIAL_SPEED, 1200)), 40))
  IN chase(Hypot(p.vx, p.vz), p.x - e.x, p.z - e.z, Hypot(p.x - e.x, p.z - e.z))

\* the strict box test written inline in the police and traffic building checks
StrictOverlap(a, b) ==
  /\ a.minx < b.maxx
  /\ a.maxx > b.minx
  /\ a.minz < b.maxz
  /\ a.maxz > b.minz

\* the first building (index) whose footprint, padded by radius, strictly
\* overlaps the box; 0 when there is none
RECURSIVE firstHit(_, _, _, _)
firstHit(box, bs, radius, k) ==
  IF k > Len(bs) THEN 0
  ELSE IF StrictOverlap(box, PaddedBox(bs[k], radius)) THEN k
  ELSE firstHit(box, bs, radius, k + 1)

\* EnemyChaser._checkBuildingCollisions: stop, slow down, reroute, nudge
checkBuildingCollisions(e, oldX, oldZ, bs, p) ==
  LET k == firstHit(EnemyBox(e), bs, 2000, 1)
  IN IF k = 0 THEN e
     ELSE LET awayX == oldX - bs[k].x
              awayZ == oldZ - bs[k].z
              awayDist == Hypot(awayX, awayZ)
              ux == Div(awayX * 1000, awayDist)
              uz == Div(awayZ * 1000, awayDist)
              toPlayerX == p.x - oldX
              toPlayerZ == p.z - oldZ
              leftDot == Div(-uz * toPlayerX, 1000) + Div(ux * toPlayerZ, 1000)
              rightDot == Div(uz * toPlayerX, 1000) + Div(-ux * toPlayerZ, 1000)
              rerouteX == IF leftDot > rightDot THEN -uz ELSE uz
              rerouteZ == IF leftDot > rightDot THEN ux ELSE -ux
              finalX == Mul(rerouteX, 600) + Mul(ux, 400)
              finalZ == Mul(rerouteZ, 600) + Mul(uz, 400)
              rot == IF awayDist > 10 THEN Atan2(finalX, finalZ) ELSE e.rotation + HalfPI
          IN [e EXCEPT !.x = oldX + Div(Sin(rot) * 1500, 1000),
                       !.z = oldZ + Div(Cos(rot) * 1500, 1000),
                       !.vx = 0, !.vz = 0,
                       !.speed = Max(Mul(e.speed, 300), Mul(ENEMY_INITIAL_SPEED, 500)),
                       !.rotation = rot, !.targetRotation = rot]

\* EnemyChaser._updatePosition
enemyUpdatePosition(e, dt, bs, p) ==
  LET vx == Mul(e.speed, Sin(e.rotation))
      vz == Mul(e.speed, Cos(e.rotation))
      moved == [e EXCEPT !.vx = vx, !.vz = vz,
                         !.x = @ + Div(vx * dt, 1000), !.z = @ + Div(vz * dt, 1000)]
  IN checkBuildingCollisions(moved, e.x, e.z, bs, p)

\* the sequence s without its k-th element
Without(s, k) == SubSeq(s, 1, k - 1) \o SubSeq(s, k + 1, Len(s))

\* EnemyChaser.update(deltaTime) of the k-th police car (lights, siren and
\* skid marks are outside this core)
EnemyUpdate(es, k, dt, bs, p) ==
  enemyUpdatePosition(updatePursuitAI(es[k], Without(es, k), p), dt, bs, p)

\* this.enemies.forEach((enemy) => enemy.update(deltaTime)): in list order,
\* each car seeing the cars before it already moved
RECURSIVE EnemiesUpdate(_, _, _, _, _)
EnemiesUpdate(es, k, dt, bs, p) ==
  IF k > Len(es) THEN es
  ELSE EnemiesUpdate([es EXCEPT ![k] = EnemyUpdate(es, k, dt, bs, p)], k + 1, dt, bs, p)

(***************************************************************************)
(* TrafficCar and TrafficManager                                           *)
(***************************************************************************)
\* the largest number of traffic cars alive at once (the code's cap is 70)
MaxTraffic == 2

\* TrafficCar._setLaneDirection: the unit direction of a lane, in 1/1000
laneDirection(lane) ==
  CASE lane = 0 -> [x |-> 0, z |-> -1000]
    [] lane = 1 -> [x |-> 0, z |-> 1000]
    [] lane = 2 -> [x |-> -1000, z |-> 0]
    [] OTHER -> [x |-> 1000, z |-> 0]

\* TrafficCar constructor; speed is the random(8, 15) draw
NewTrafficCar(x, z, lane, speed) ==
  [ x |-> x, z |-> z, lane |-> lane, direction |-> laneDirection(lane),
    speed |-> speed, originalSpeed |-> speed, isActive |-> TRUE,
    isColliding |-> FALSE, collisionReverseTimer |-> 0,
    collisionReverseDirection |-> [x |-> 0, z |-> 0] ]

\* TrafficCar.getBoundingBox
TrafficBox(c) == Box(c.x, c.z, 900, 1600)

\* TrafficCar._checkBuildingCollision: every building is tested against the
\* box taken before the loop; each hit re-places the car and starts a reverse
RECURSIVE trafficBuildingCollision(_, _, _, _)
trafficBuildingCollision(c, carBox, bs, k) ==
  IF k > Len(bs) THEN c
  ELSE LET dx == c.x - bs[k].x
           dz == c.z - bs[k].z
           distance == Hypot(dx, dz)
           hit == StrictOverlap(carBox, PaddedBox(bs[k], 1000)) /\ distance > 0
           c1 == IF hit
                 THEN [c EXCEPT !.x = bs[k].x + Div(dx * 2000, distance),
                                !.z = bs[k].z + Div(dz * 2000, distance),
                                !.isColliding = TRUE, !.collisionReverseTimer = 200,
                                !.collisionReverseDirection =
                                    [x |-> Div(dx * 1000, distance), z |-> Div(dz * 1000, distance)]]
                 ELSE c
       IN trafficBuildingCollision(c1, carBox, bs, k + 1)

\* TrafficCar.update(deltaTime, cityRef) as TrafficManager calls it (no list
\* of other cars is passed, so _avoidOtherCars restores the original speed)
TrafficCarUpdate(c, dt, bs) ==
  IF ~c.isActive THEN c
  ELSE LET reversing == c.isColliding /\ c.collisionReverseTimer > 0
           timer == IF reversing THEN c.collisionReverseTimer - dt ELSE c.collisionReverseTimer
           c1 == IF ~reversing THEN c
                 ELSE IF timer <= 0
                 THEN [c EXCEPT !.collisionReverseTimer = timer, !.isColliding = FALSE,
                                !.direction = laneDirection(c.lane)]
                 ELSE [c EXCEPT !.collisionReverseTimer = timer,
                                !.direction = c.collisionReverseDirection]
           c2 == [c1 EXCEPT !.speed = c.originalSpeed]
           c3 == [c2 EXCEPT !.x = @ + Div(Mul(c2.speed, c2.direction.x) * dt, 1000),
                            !.z = @ + Div(Mul(c2.speed, c2.direction.z) * dt, 1000)]
           c4 == trafficBuildingCollision(c3, TrafficBox(c3), bs, 1)
       IN IF Hypot(c4.x, c4.z) > 300000 THEN [c4 EXCEPT !.isActive = FALSE] ELSE c4

\* TrafficManager._spawnTrafficCar for one drawn request r = [lane,
\* laneOffset, spawnDistance, speed]
spawnTrafficCar(cars, r) ==
  LET pos == CASE r.lane = 0 -> [x |-> r.laneOffset, z |-> -r.spawnDistance]
               [] r.lane = 1 -> [x |-> r.laneOffset, z |-> r.spawnDistance]
               [] r.lane = 2 -> [x |-> r.spawnDistance, z |-> r.laneOffset]
               [] OTHER -> [x |-> -r.spawnDistance, z |-> r.laneOffset]
      tooClose == \E k \in 1..Len(cars) : Hypot(cars[k].x - pos.x, cars[k].z - pos.z) < 15000
  IN IF Len(cars) >= Min(70, MaxTraffic) \/ tooClose THEN cars
     ELSE Append(cars, NewTrafficCar(pos.x, pos.z, r.lane, r.speed))

\* the spawn loop of TrafficManager.update over the drawn batch of requests
RECURSIVE spawnAll(_, _, _)
spawnAll(cars, batch, k) ==
  IF k > Len(batch) THEN cars ELSE spawnAll(spawnTrafficCar(cars, batch[k]), batch, k + 1)

\* TrafficManager.update(deltaTime); batch is what the random draws of this
\* call would spawn
TrafficManagerUpdate(tm, dt, batch, bs) ==
  LET t == tm.spawnTimer + dt
      spawned == IF t >= 500 THEN spawnAll(tm.cars, batch, 1) ELSE tm.cars
      updated == [k \in 1..Len(spawned) |-> TrafficCarUpdate(spawned[k], dt, bs)]
  IN [cars |-> SelectSeq(updated, LAMBDA c : c.isActive),
      spawnTimer |-> IF t >= 500 THEN 0 ELSE t]

(***************************************************************************)
(* CollisionSystem: pair resolution                                        *)
(***************************************************************************)
\* objX.getBoundingBox() of whichever vehicle class the record is
BoxOf(o) ==
  IF "isCrashed" \in DOMAIN o THEN PlayerBox(o)
  ELSE IF "lane" \in DOMAIN o THEN TrafficBox(o)
  ELSE EnemyBox(o)

\* objX.velocity && typeof objX.velocity.x === "number"
hasVel(o) == "vx" \in DOMAIN o

\* an MTV test that takes touching edges for an overlap, for comparison
computeMTV2DTouching(boxA, boxB) ==
  LET overlapX == Min(boxA.maxx, boxB.maxx) - Max(boxA.minx, boxB.minx)
      overlapZ == Min(boxA.maxz, boxB.maxz) - Max(boxA.minz, boxB.minz)
  IN IF overlapX < 0 \/ overlapZ < 0 THEN [hit |-> FALSE, x |-> 0, z |-> 0]
     ELSE IF overlapX < overlapZ
     THEN [hit |-> TRUE, z |-> 0,
           x |-> (IF boxA.minx + boxA.maxx < boxB.minx + boxB.maxx THEN -1 ELSE 1) * overlapX]
     ELSE [hit |-> TRUE, x |-> 0,
           z |-> (IF boxA.minz + boxA.maxz < boxB.minz + boxB.maxz THEN -1 ELSE 1) * overlapZ]

\* an MTV along the axis of the larger penetration, for comparison
computeMTV2DLargerAxis(boxA, boxB) ==
  LET overlapX == Min(boxA.maxx, boxB.maxx) - Max(boxA.minx, boxB.minx)
      overlapZ == Min(boxA.maxz, boxB.maxz) - Max(boxA.minz, boxB.minz)
  IN IF overlapX <= 0 \/ overlapZ <= 0 THEN [hit |-> FALSE, x |-> 0, z |-> 0]
     ELSE IF overlapX > overlapZ
     THEN [hit |-> TRUE, z |-> 0,
           x |-> (IF boxA.minx + boxA.maxx < boxB.minx + boxB.maxx THEN -1 ELSE 1) * overlapX]
     ELSE [hit |-> TRUE, x |-> 0,
           z |-> (IF boxA.minz + boxA.maxz < boxB.minz + boxB.maxz THEN -1 ELSE 1) * overlapZ]

\* CollisionSystem._computeMTV2D; hit = FALSE stands for the null result
computeMTV2D(boxA, boxB) ==
  LET overlapX == Min(boxA.maxx, boxB.maxx) - Max(boxA.minx, boxB.minx)
      overlapZ == Min(boxA.maxz, boxB.maxz) - Max(boxA.minz, boxB.minz)
  IN IF overlapX <= 0 \/ overlapZ <= 0 THEN [hit |-> FALSE, x |-> 0, z |-> 0]
     ELSE IF overlapX < overlapZ
     THEN [hit |-> TRUE, z |-> 0,
           x |-> (IF boxA.minx + boxA.maxx < boxB.minx + boxB.maxx THEN -1 ELSE 1) * overlapX]
     ELSE [hit |-> TRUE, x |-> 0,
           z |-> (IF boxA.minz + boxA.maxz < boxB.minz + boxB.maxz THEN -1 ELSE 1) * overlapZ]

\* Math.sign(move || 1) * minSeparation
separationBuffer(move, minSeparation) ==
  IF move = 0 THEN minSeparation ELSE Sign(move) * minSeparation

\* _resolveVehiclePair, position correction of both bodies
positionCorrection(objA, objB, mtv, o) ==
  [a |-> [objA EXCEPT
            !.x = @ - Mul(Div(mtv.x * o.massB, o.massA + o.massB), o.pushStrength)
                    + separationBuffer(-Mul(Div(mtv.x * o.massB, o.massA + o.massB), o.pushStrength),
                                       o.minSeparation),
            !.z = @ - Mul(Div(mtv.z * o.massB, o.massA + o.massB), o.pushStrength)
                    + separationBuffer(-Mul(Div(mtv.z * o.massB, o.massA + o.massB), o.pushStrength),
                                       o.minSeparation)],
   b |-> [objB EXCEPT
            !.x = @ + Mul(Div(mtv.x * o.massA, o.massA + o.massB), o.pushStrength)
                    + separationBuffer(Mul(Div(mtv.x * o.massA, o.massA + o.massB), o.pushStrength),
                                       o.minSeparation),
            !.z = @ + Mul(Div(mtv.z * o.massA, o.massA + o.massB), o.pushStrength)
                    + separationBuffer(Mul(Div(mtv.z * o.massA, o.massA + o.massB), o.pushStrength),
                                       o.minSeparation)]]

\* _resolveVehiclePair, both bodies carry a velocity: the velocity component
\* v after the impulse dv, with the friction term along tangent component t
afterImpulse(v, dv, t, friction) == (v + dv) + t * Mul(v + dv, 1000 - friction)

\* an impulse that changes the velocity of body A only, for comparison
impulseResponseOneSided(a, b, n, o) ==
  LET relVelAlongNormal == (a.vx - b.vx) * n.x + (a.vz - b.vz) * n.z
      impulseMagnitude == Div(-(1000 + o.elasticity) * relVelAlongNormal, o.massA + o.massB)
  IN IF relVelAlongNormal > 0 THEN [a |-> a, b |-> b, hit |-> TRUE]
     ELSE [a |-> [a EXCEPT !.vx = afterImpulse(@, Mul(impulseMagnitude * n.x, o.massB), -n.z, o.friction),
                           !.vz = afterImpulse(@, Mul(impulseMagnitude * n.z, o.massB), n.x, o.friction)],
           b |-> b,
           hit |-> TRUE]

\* _resolveVehiclePair, both bodies carry a velocity: impulse along the
\* collision normal n, then the friction term on each component
impulseResponse(a, b, n, o) ==
  LET relVelAlongNormal == (a.vx - b.vx) * n.x + (a.vz - b.vz) * n.z
      impulseMagnitude == Div(-(1000 + o.elasticity) * relVelAlongNormal, o.massA + o.massB)
  IN IF relVelAlongNormal > 0 THEN [a |-> a, b |-> b, hit |-> TRUE]
     ELSE [a |-> [a EXCEPT !.vx = afterImpulse(@, Mul(impulseMagnitude * n.x, o.massB), -n.z, o.friction),
                           !.vz = afterImpulse(@, Mul(impulseMagnitude * n.z, o.massB), n.x, o.friction)],
           b |-> [b EXCEPT !.vx = afterImpulse(@, -Mul(impulseMagnitude * n.x, o.massA), -n.z, o.friction),
                           !.vz = afterImpulse(@, -Mul(impulseMagnitude * n.z, o.massA), n.x, o.friction)],
           hit |-> TRUE]

\* _resolveVehiclePair, only body v carries a velocity: v is reflected off the
\* normal n and the speed-only body s gains part of the impact
reflectResponse(v, s, n, o, impactStrength) ==
  [v |-> [v EXCEPT !.vx = Mul(@, 1000 - o.elasticity) - n.x * Mul(impactStrength, o.elasticity),
                   !.vz = Mul(@, 1000 - o.elasticity) - n.z * Mul(impactStrength, o.elasticity)],
   s |-> [s EXCEPT !.speed = clamp(@ + Mul(impactStrength, 300), 4000, Mul(@, 1500))]]

\* _resolveVehiclePair, the momentum branches after the position correction
velocityResponse(a, b, n, o) ==
  IF hasVel(a) /\ hasVel(b) THEN impulseResponse(a, b, n, o)
  ELSE IF hasVel(a)
  THEN [a |-> reflectResponse(a, b, n, o, Hypot(a.vx, a.vz)).v,
        b |-> reflectResponse(a, b, n, o, Hypot(a.vx, a.vz)).s, hit |-> TRUE]
  ELSE IF hasVel(b)
  THEN [a |-> reflectResponse(b, a, [x |-> -n.x, z |-> -n.z], o, Hypot(b.vx, b.vz)).s,
        b |-> reflectResponse(b, a, [x |-> -n.x, z |-> -n.z], o, Hypot(b.vx, b.vz)).v, hit |-> TRUE]
  ELSE [a |-> [a EXCEPT !.speed = clamp(Mul(@, o.friction), 4000, @)],
        b |-> [b EXCEPT !.speed = clamp(Mul(@, o.friction), 4000, @)],
        hit |-> TRUE]

\* _resolveVehiclePair once the MTV is known
resolveWithMTV(objA, objB, mtv, o) ==
  IF ~mtv.hit THEN [a |-> objA, b |-> objB, hit |-> FALSE]
  ELSE velocityResponse(positionCorrection(objA, objB, mtv, o).a,
                        positionCorrection(objA, objB, mtv, o).b,
                        [x |-> Sign(mtv.x), z |-> Sign(mtv.z)], o)

\* CollisionSystem._resolveVehiclePair(objA, objB, options): the two bodies
\* after the call and the boolean it returns
resolveVehiclePair(objA, objB, o) ==
  resolveWithMTV(objA, objB, computeMTV2D(BoxOf(objA), BoxOf(objB)), o)

\* the default options of _resolveVehiclePair
DefaultOptions ==
  [elasticity |-> 400, friction |-> 600, massA |-> 1000, massB |-> 1000,
   minSeparation |-> 250, pushStrength |-> 1500]

\* the options _resolveInterVehicleCollisions passes for each kind of pair
TrafficTrafficOptions ==
  [elasticity |-> 500, friction |-> 700, massA |-> 900, massB |-> 900,
   minSeparation |-> 300, pushStrength |-> 2000]

EnemyTrafficOptions ==
  [elasticity |-> 400, friction |-> 650, massA |-> 1500, massB |-> 900,
   minSeparation |-> 350, pushStrength |-> 2200]

EnemyEnemyOptions ==
  [elasticity |-> 300, friction |-> 750, massA |-> 1500, massB |-> 1500,
   minSeparation |-> 400, pushStrength |-> 2500]

\* the options _enforcePlayerPoliceSeparation passes (player, police)
PlayerEnemyOptions(nearBuilding) ==
  [elasticity |-> IF nearBuilding THEN 300 ELSE 500,
   friction |-> IF nearBuilding THEN 700 ELSE 500,
   massA |-> 1000, massB |-> 1800,
   minSeparation |-> IF nearBuilding THEN 400 ELSE 600,
   pushStrength |-> IF nearBuilding THEN 2000 ELSE 3500]

(***************************************************************************)
(* CollisionSystem: player-police separation                               *)
(***************************************************************************)
\* the point (px, pz) lies inside a footprint grown by margin (edges included)
inFootprint(px, pz, b, margin) ==
  /\ px >= b.x - b.width \div 2 - margin
  /\ px <= b.x + b.width \div 2 + margin
  /\ pz >= b.z - b.depth \div 2 - margin
  /\ pz <= b.z + b.depth \div 2 + margin

\* the "for (const building of buildings)" point tests
anyFootprint(px, pz, bs, margin) ==
  \E k \in 1..Len(bs) : inFootprint(px, pz, bs[k], margin)

\* the minimum safe centre distance of _enforcePlayerPoliceSeparation
minDist == 5500

\* the body of the enemy loop of _enforcePlayerPoliceSeparation for the k-th
\* police car; st = [p, es] is the live state, playerPos the snapshot taken
\* once before both passes, playerBox the box taken at the start of the pass
separateFrom(st, k, playerPos, playerBox, bs) ==
  LET store(r) == [p |-> r.p, es |-> [st.es EXCEPT ![k] = r.e]]
      \* "if (checkAABBCollision(playerBox, enemyBox))", enemyBox taken
      \* before the distance push
      boxResolve(pushed, r) ==
        IF checkAABBCollision(playerBox, EnemyBox(st.es[k]))
        THEN store([p |-> r.a, e |-> r.b])
        ELSE store(pushed)
      physics(pushed) ==
        boxResolve(pushed,
                   resolveVehiclePair(pushed.p, pushed.e,
                       PlayerEnemyOptions(anyFootprint(playerPos.x, playerPos.z, bs, 4500))))
      \* SAFE MODE: slide sideways, minimal push, damped velocity
      safeMode(p, enemy, nx, nz, baseSeparationForce, canSlide1, canSlide2) ==
        [p |-> [p EXCEPT
                  !.x = @ + (IF canSlide1 THEN Mul(-nz, 300) ELSE IF canSlide2 THEN Mul(nz, 300) ELSE 0)
                          + Mul(nx, Min(Mul(baseSeparationForce, 150), 800)),
                  !.z = @ + (IF canSlide1 THEN Mul(nx, 300) ELSE IF canSlide2 THEN Mul(-nx, 300) ELSE 0)
                          + Mul(nz, Min(Mul(baseSeparationForce, 150), 800)),
                  !.vx = Mul(@, 500), !.vz = Mul(@, 500), !.speed = Mul(@, 700)],
         e |-> [enemy EXCEPT !.x = @ - Mul(Mul(nx, baseSeparationForce), 600),
                             !.z = @ - Mul(Mul(nz, baseSeparationForce), 600)]]
      \* NORMAL MODE: the player is placed at the proposed position
      normalMode(p, enemy, nx, nz, baseSeparationForce) ==
        [p |-> [p EXCEPT !.x = playerPos.x + Mul(Mul(nx, baseSeparationForce), 650),
                         !.z = playerPos.z + Mul(Mul(nz, baseSeparationForce), 650)],
         e |-> [enemy EXCEPT !.x = @ - Mul(Mul(nx, baseSeparationForce), 350),
                             !.z = @ - Mul(Mul(nz, baseSeparationForce), 350)]]
      push(p, enemy, nx, nz, baseSeparationForce) ==
        IF anyFootprint(playerPos.x + Mul(Mul(nx, baseSeparationForce), 650),
                        playerPos.z + Mul(Mul(nz, baseSeparationForce), 650), bs, 3000)
        THEN safeMode(p, enemy, nx, nz, baseSeparationForce,
                      ~anyFootprint(playerPos.x + Mul(-nz, 1500), playerPos.z + Mul(nx, 1500), bs, 3000),
                      ~anyFootprint(playerPos.x + Mul(nz, 1500), playerPos.z + Mul(-nx, 1500), bs, 3000))
        ELSE normalMode(p, enemy, nx, nz, baseSeparationForce)
      \* "if (dist < minDist)"
      tooClose(p, enemy, dx, dz, dist) ==
        IF dist >= minDist THEN [p |-> p, e |-> enemy]
        ELSE push(p, enemy,
                  IF dist > 10 THEN Div(dx * 1000, dist) ELSE 1000,
                  IF dist > 10 THEN Div(dz * 1000, dist) ELSE 0,
                  Mul(minDist - dist, 2500))
  IN physics(tooClose(st.p, st.es[k], playerPos.x - st.es[k].x, playerPos.z - st.es[k].z,
                      Hypot(playerPos.x - st.es[k].x, playerPos.z - st.es[k].z)))

\* one pass of _enforcePlayerPoliceSeparation over the police list
RECURSIVE separationPass(_, _, _, _, _)
separationPass(st, k, playerPos, playerBox, bs) ==
  IF k > Len(st.es) THEN st
  ELSE separationPass(separateFrom(st, k, playerPos, playerBox, bs), k + 1, playerPos, playerBox, bs)

\* CollisionSystem._enforcePlayerPoliceSeparation: two passes, the player
\* position snapshot shared by both
enforcePlayerPoliceSeparation(p, es, bs) ==
  LET secondPass(st) == separationPass(st, 1, [x |-> p.x, z |-> p.z], PlayerBox(st.p), bs)
  IN IF Len(es) = 0 THEN [p |-> p, es |-> es]
     ELSE secondPass(separationPass([p |-> p, es |-> es], 1, [x |-> p.x, z |-> p.z], PlayerBox(p), bs))

(***************************************************************************)
(* CollisionSystem: player contacts                                        *)
(***************************************************************************)
\* the CollisionSystem constructor; evaluated/verdict record what the last
\* call of the containment detector did
NewCollisionSystem ==
  [collisionCooldown |-> 0, trappedCheckTimer |-> 0, evaluated |-> FALSE, verdict |-> FALSE]

\* this.cooldownDuration
cooldownDuration == 300

\* a _checkPlayerEnemyCollision whose handler sets no cooldown, for comparison
checkPlayerEnemyCollisionSilent(cooldown, p, es) == cooldown

\* CollisionSystem._checkPlayerEnemyCollision with _handlePlayerEnemyCollision:
\* the new cooldown
checkPlayerEnemyCollision(cooldown, p, es) ==
  IF cooldown > 0 THEN cooldown
  ELSE IF \E k \in 1..Len(es) : checkAABBCollision(PlayerBox(p), EnemyBox(es[k]))
  THEN cooldownDuration
  ELSE cooldown

\* the first traffic car (index) whose box touches the box; 0 when none does
RECURSIVE firstTrafficHit(_, _, _)
firstTrafficHit(box, cars, k) ==
  IF k > Len(cars) THEN 0
  ELSE IF checkAABBCollision(box, TrafficBox(cars[k])) THEN k
  ELSE firstTrafficHit(box, cars, k + 1)

\* CollisionSystem._handlePlayerTrafficCollision: the player after the crash
\* (a TrafficCar has no velocity field, so the car itself is not pushed)
handlePlayerTrafficCollision(p, car) ==
  LET dx == p.x - car.x
      dz == p.z - car.z
      distance == Hypot(dx, dz)
      placed == IF distance > 10
                THEN [p EXCEPT !.x = car.x + Div(dx * 2500, distance),
                               !.z = car.z + Div(dz * 2500, distance)]
                ELSE p
  IN [placed EXCEPT !.vx = 0, !.vz = 0, !.speed = 0,
                    !.crashReverseDirection = [x |-> -Sin(p.rotation), z |-> -Cos(p.rotation)],
                    !.isCrashed = TRUE, !.crashStunTimer = 150, !.crashReverseTimer = 600]

\* CollisionSystem._checkPlayerTrafficCollisions: player, cooldown and whether
\* the handler ran
checkPlayerTrafficCollisions(cooldown, p, cars) ==
  LET k == firstTrafficHit(PlayerBox(p), cars, 1)
  IN IF cooldown > 0 \/ k = 0 THEN [p |-> p, cooldown |-> cooldown, hit |-> FALSE]
     ELSE [p |-> handlePlayerTrafficCollision(p, cars[k]), cooldown |-> 800, hit |-> TRUE]

\* the first building (index) whose footprint, padded by radius, touches the
\* box; 0 when none does
RECURSIVE firstBuildingTouch(_, _, _, _)
firstBuildingTouch(box, bs, radius, k) ==
  IF k > Len(bs) THEN 0
  ELSE IF checkAABBCollision(box, PaddedBox(bs[k], radius)) THEN k
  ELSE firstBuildingTouch(box, bs, radius, k + 1)

\* _handlePlayerBuildingCollision, "Push player out of building": the player
\* placed minClearance outside the face of the padded box it hit
pushOutOfBuilding(p, b) ==
  LET buildingBox == PaddedBox(b, 1500)
      dx == p.x - b.x
      dz == p.z - b.z
      buildingWidth == buildingBox.maxx - buildingBox.minx
      buildingDepth == buildingBox.maxz - buildingBox.minz
      minClearance == 1500 + 500
  IN IF Abs(dx) * buildingDepth > Abs(dz) * buildingWidth
     THEN [p EXCEPT !.x = IF dx > 0 \/ (dx = 0 /\ dz = 0)
                          THEN buildingBox.maxx + minClearance
                          ELSE buildingBox.minx - minClearance]
     ELSE [p EXCEPT !.z = IF dz > 0
                          THEN buildingBox.maxz + minClearance
                          ELSE buildingBox.minz - minClearance]

\* a building crash that starts the reverse at once (no stun), for comparison
handlePlayerBuildingCollisionNoStun(p, b) ==
  [pushOutOfBuilding(p, b) EXCEPT
     !.vx = 0, !.vz = 0, !.speed = 0,
     !.crashReverseDirection = [x |-> -Sin(p.rotation), z |-> -Cos(p.rotation)],
     !.isCrashed = TRUE, !.crashStunTimer = 0, !.crashReverseTimer = 800]

\* a building crash with the reverse timer of the traffic crash, for comparison
handlePlayerBuildingCollisionShortReverse(p, b) ==
  [pushOutOfBuilding(p, b) EXCEPT
     !.vx = 0, !.vz = 0, !.speed = 0,
     !.crashReverseDirection = [x |-> -Sin(p.rotation), z |-> -Cos(p.rotation)],
     !.isCrashed = TRUE, !.crashStunTimer = 200, !.crashReverseTimer = 600]

\* CollisionSystem._handlePlayerBuildingCollision: the player after the crash
handlePlayerBuildingCollision(p, b) ==
  [pushOutOfBuilding(p, b) EXCEPT
     !.vx = 0, !.vz = 0, !.speed = 0,
     !.crashReverseDirection = [x |-> -Sin(p.rotation), z |-> -Cos(p.rotation)],
     !.isCrashed = TRUE, !.crashStunTimer = 200, !.crashReverseTimer = 800]

\* CollisionSystem._checkPlayerBuildingCollisions
checkPlayerBuildingCollisions(cooldown, p, bs) ==
  LET k == firstBuildingTouch(PlayerBox(p), bs, 1500, 1)
  IN IF p.isCrashed \/ k = 0 THEN [p |-> p, cooldown |-> cooldown, hit |-> FALSE]
     ELSE [p |-> handlePlayerBuildingCollision(p, bs[k]), cooldown |-> 1200, hit |-> TRUE]

\* City.getCityObstacles(): the bounds of the four traffic signs placed by
\* _spawnUrbanObstacles at (18, 18), (-18, -18), (18, -18), (-18, 18)
CityObstacles ==
  << Box(18000, 18000, 300, 300), Box(-18000, -18000, 300, 300),
     Box(18000, -18000, 300, 300), Box(-18000, 18000, 300, 300) >>

\* the first obstacle (index) whose bounds touch the box; 0 when none does
RECURSIVE firstObstacleHit(_, _, _)
firstObstacleHit(box, obstacles, k) ==
  IF k > Len(obstacles) THEN 0
  ELSE IF checkAABBCollision(box, obstacles[k]) THEN k
  ELSE firstObstacleHit(box, obstacles, k + 1)

\* CollisionSystem._checkPlayerCityObstacleCollisions with
\* _handlePlayerCityObstacleCollision: a push of 4 units/s away from the sign
checkPlayerCityObstacleCollisions(cooldown, p, obstacles) ==
  LET k == firstObstacleHit(PlayerBox(p), obstacles, 1)
      cx == (obstacles[k].minx + obstacles[k].maxx) \div 2
      cz == (obstacles[k].minz + obstacles[k].maxz) \div 2
      pushMagnitude == Hypot(p.x - cx, p.z - cz)
  IN IF cooldown > 0 \/ k = 0 THEN [p |-> p, cooldown |-> cooldown]
     ELSE IF pushMagnitude > 0
     THEN [p |-> [p EXCEPT !.vx = @ + Div((p.x - cx) * 4000, pushMagnitude),
                           !.vz = @ + Div((p.z - cz) * 4000, pushMagnitude)],
           cooldown |-> cooldownDuration]
     ELSE [p |-> p, cooldown |-> cooldownDuration]

(***************************************************************************)
(* CollisionSystem: inter-vehicle resolution                               *)
(***************************************************************************)
\* the double loop "for i, for j > i" over one vehicle list
RECURSIVE resolveAmong(_, _, _, _)
resolveAmong(vs, i, j, o) ==
  IF i > Len(vs) THEN vs
  ELSE IF j > Len(vs) THEN resolveAmong(vs, i + 1, i + 2, o)
  ELSE LET r == resolveVehiclePair(vs[i], vs[j], o)
       IN resolveAmong([vs EXCEPT ![i] = r.a, ![j] = r.b], i, j + 1, o)

\* the double loop "for enemy, for car"
RECURSIVE resolveAcross(_, _, _, _, _)
resolveAcross(es, cars, i, j, o) ==
  IF i > Len(es) THEN [es |-> es, cars |-> cars]
  ELSE IF j > Len(cars) THEN resolveAcross(es, cars, i + 1, 1, o)
  ELSE LET r == resolveVehiclePair(es[i], cars[j], o)
       IN resolveAcross([es EXCEPT ![i] = r.a], [cars EXCEPT ![j] = r.b], i, j + 1, o)

\* CollisionSystem._resolveInterVehicleCollisions
resolveInterVehicleCollisions(es, cars) ==
  LET c1 == resolveAmong(cars, 1, 2, TrafficTrafficOptions)
      x == resolveAcross(es, c1, 1, 1, EnemyTrafficOptions)
  IN [es |-> resolveAmong(x.es, 1, 2, EnemyEnemyOptions), cars |-> x.cars]

(***************************************************************************)
(* CollisionSystem: containment detector                                   *)
(***************************************************************************)
\* the eight probe directions of _checkPlayerTrapped (E, W, N, S, NE, SE,
\* NW, SW), in 1/1000
dirs ==
  << [x |-> 1000, z |-> 0], [x |-> -1000, z |-> 0], [x |-> 0, z |-> 1000],
     [x |-> 0, z |-> -1000], [x |-> 707, z |-> 707], [x |-> 707, z |-> -707],
     [x |-> -707, z |-> 707], [x |-> -707, z |-> -707] >>

\* testPos of a probe direction: testDist = 5.0 ahead of the player
testPos(p, d) == [x |-> p.x + d.x * 5, z |-> p.z + d.z * 5]

\* the inner "for (const e of enemies)" loop: some police car within
\* policeBlockRadius = 5.0 of the probe point
blockedByPolice(t, es) ==
  \E k \in 1..Len(es) : Hypot(t.x - es[k].x, t.z - es[k].z) < 5000

\* the probe loop: totalBlocked and policeBlocked after directions k..8
RECURSIVE countBlocked(_, _, _, _)
countBlocked(p, es, bs, k) ==
  IF k > Len(dirs) THEN [totalBlocked |-> 0, policeBlocked |-> 0]
  ELSE LET rest == countBlocked(p, es, bs, k + 1)
           t == testPos(p, dirs[k])
       IN IF blockedByPolice(t, es)
          THEN [totalBlocked |-> rest.totalBlocked + 1, policeBlocked |-> rest.policeBlocked + 1]
          ELSE IF anyFootprint(t.x, t.z, bs, 2500)
          THEN [totalBlocked |-> rest.totalBlocked + 1, policeBlocked |-> rest.policeBlocked]
          ELSE rest

\* closePolice.length: police cars less than 10 units from the player
closePolice(p, es) ==
  Cardinality({k \in 1..Len(es) : Hypot(p.x - es[k].x, p.z - es[k].z) < 10000})

\* a detector that counts any six blocked probes, police or building, for comparison
boxedInAnyBlocker(p, es, bs) ==
  IF closePolice(p, es) < 3 THEN FALSE
  ELSE countBlocked(p, es, bs, 1).totalBlocked >= 6

\* whether one evaluation of _checkPlayerTrapped reaches setTrapped()
boxedIn(p, es, bs) ==
  LET c == countBlocked(p, es, bs, 1)
  IN IF closePolice(p, es) < 3 THEN FALSE
     ELSE IF c.totalBlocked < 6 \/ c.policeBlocked < 4 THEN FALSE
     ELSE TRUE

\* CollisionSystem._checkPlayerTrapped(deltaTime): evaluates every 150 ms of
\* accumulated simulation time
checkPlayerTrapped(c, p, es, bs, dt) ==
  LET t == c.trappedCheckTimer + dt
      v == boxedIn(p, es, bs)
  IN IF t < 150
     THEN [cs |-> [c EXCEPT !.trappedCheckTimer = t, !.evaluated = FALSE, !.verdict = FALSE], p |-> p]
     ELSE [cs |-> [c EXCEPT !.trappedCheckTimer = 0, !.evaluated = TRUE, !.verdict = v],
           p |-> IF v THEN setTrapped(p) ELSE p]

(***************************************************************************)
(* CollisionSystem.update                                                  *)
(***************************************************************************)
\* CollisionSystem.update(deltaTime): the collision system, the player, the
\* police list and the traffic list after the call; crash names the crash
\* handler that ran in it
CollisionUpdate(c, p, es, cars, bs, dt) ==
  LET afterDetector(det, iv, crash) ==
        [cs |-> det.cs, p |-> det.p, es |-> iv.es, cars |-> iv.cars, crash |-> crash]
      afterVehicles(c1, p1, iv, crash) ==
        afterDetector(IF Len(iv.es) > 0 THEN checkPlayerTrapped(c1, p1, iv.es, bs, dt)
                      ELSE [cs |-> c1, p |-> p1],
                      iv, crash)
      afterObstacles(ob, sep, crash) ==
        afterVehicles([c EXCEPT !.collisionCooldown = ob.cooldown,
                                !.evaluated = FALSE, !.verdict = FALSE],
                      ob.p, resolveInterVehicleCollisions(sep.es, cars), crash)
      afterBuildings(bu, sep, trafficHit) ==
        afterObstacles(checkPlayerCityObstacleCollisions(bu.cooldown, bu.p, CityObstacles), sep,
                       IF trafficHit THEN "traffic" ELSE IF bu.hit THEN "building" ELSE "none")
      afterTraffic(tr, sep) ==
        afterBuildings(checkPlayerBuildingCollisions(tr.cooldown, tr.p, bs), sep, tr.hit)
      afterSeparation(sep, cd0) ==
        afterTraffic(checkPlayerTrafficCollisions(checkPlayerEnemyCollision(cd0, sep.p, sep.es),
                                                  sep.p, cars),
                     sep)
  IN afterSeparation(enforcePlayerPoliceSeparation(p, es, bs),
                     IF c.collisionCooldown > 0 THEN c.collisionCooldown - dt
                     ELSE c.collisionCooldown)

(***************************************************************************)
(* WantedSystem: wanted level and police spawning                          *)
(***************************************************************************)
\* WANTED_CONFIG (utils/constants.js); times in ms
MAX_WANTED_LEVEL == 5

WANTED_THRESHOLDS == <<0, 20000, 40000, 70000, 100000>>

BASE_POLICE_COUNT == 5

POLICE_PER_STAR == 5

BASE_SPAWN_INTERVAL == 8000

SPAWN_INTERVAL_REDUCTION == 1500

MIN_SPAWN_INTERVAL == 2000

\* WantedSystem constructor
NewWantedSystem == [currentWantedLevel |-> 1, survivalTime |-> 0, lastSpawnTime |-> 0]

\* a threshold loop that raises the level only once a threshold is passed,
\* for comparison
RECURSIVE levelForStrict(_, _, _)
levelForStrict(survivalTime, i, newLevel) ==
  IF i > Len(WANTED_THRESHOLDS) THEN newLevel
  ELSE levelForStrict(survivalTime, i + 1,
                      IF survivalTime > WANTED_THRESHOLDS[i] THEN i ELSE newLevel)

\* the threshold loop of _updateWantedLevel from index i on (the code counts
\* i from 0 and assigns i + 1)
RECURSIVE levelFor(_, _, _)
levelFor(survivalTime, i, newLevel) ==
  IF i > Len(WANTED_THRESHOLDS) THEN newLevel
  ELSE levelFor(survivalTime, i + 1,
                IF survivalTime >= WANTED_THRESHOLDS[i] THEN i ELSE newLevel)

\* WantedSystem._updateWantedLevel
updateWantedLevel(w) ==
  LET raise(newLevel) ==
        IF newLevel > w.currentWantedLevel THEN [w EXCEPT !.currentWantedLevel = newLevel] ELSE w
  IN raise(Min(levelFor(w.survivalTime, 1, 1), MAX_WANTED_LEVEL))

\* WantedSystem._getSpawnInterval
getSpawnInterval(w) ==
  Max(BASE_SPAWN_INTERVAL - (w.currentWantedLevel - 1) * SPAWN_INTERVAL_REDUCTION,
      MIN_SPAWN_INTERVAL)

\* WantedSystem._getMaxPoliceCount
getMaxPoliceCount(w) == BASE_POLICE_COUNT + (w.currentWantedLevel - 1) * POLICE_PER_STAR

\* Math.round(v / 100) * 100: the nearest road line
nearestRoad(v) == ((v + 50000) \div 100000) * 100000

\* roadDirections of _spawnPolice: north, south, east, west
roadDirections == << [dx |-> 0, dz |-> 1], [dx |-> 0, dz |-> -1], [dx |-> 1, dz |-> 0], [dx |-> -1, dz |-> 0] >>

\* the spawn position _spawnPolice computes before the building test; d holds
\* the random draws: direction (1..4), u and altU (Math.random() in 1/1000),
\* laneOffset and altLaneOffset (-4 or 4)
proposedSpawn(w, p, d) ==
  IF w.currentWantedLevel >= 3
  THEN IF roadDirections[d.direction].dx = 0
       THEN [x |-> nearestRoad(p.x) + d.laneOffset,
             z |-> p.z + roadDirections[d.direction].dz * (50000 + Mul(30000, d.u))]
       ELSE [x |-> p.x + roadDirections[d.direction].dx * (50000 + Mul(30000, d.u)),
             z |-> nearestRoad(p.z) + d.laneOffset]
  ELSE IF Abs(p.x - nearestRoad(p.x)) < Abs(p.z - nearestRoad(p.z))
       THEN [x |-> nearestRoad(p.x) + d.laneOffset, z |-> p.z + (40000 + Mul(20000, d.u))]
       ELSE [x |-> p.x + (40000 + Mul(20000, d.u)), z |-> nearestRoad(p.z) + d.laneOffset]

\* the spawn position after the building test of _spawnPolice (5 units of buffer)
spawnPosition(w, p, bs, d) ==
  IF anyFootprint(proposedSpawn(w, p, d).x, proposedSpawn(w, p, d).z, bs, 5000)
  THEN [x |-> nearestRoad(p.x) + d.altLaneOffset, z |-> p.z + (50000 + Mul(30000, d.altU))]
  ELSE proposedSpawn(w, p, d)

\* a spawn routine that still adds a car when the count equals the maximum,
\* for comparison
spawnPoliceOneOver(w, es, p, bs, d) ==
  IF Len(es) > getMaxPoliceCount(w) THEN es
  ELSE Append(es, NewEnemy(spawnPosition(w, p, bs, d).x, spawnPosition(w, p, bs, d).z, d.ox))

\* WantedSystem._spawnPolice: the police list after the call (the car model
\* is cached, so the new car drives from its first update)
spawnPolice(w, es, p, bs, d) ==
  IF Len(es) >= getMaxPoliceCount(w) THEN es
  ELSE Append(es, NewEnemy(spawnPosition(w, p, bs, d).x, spawnPosition(w, p, bs, d).z, d.ox))

\* the spawn loop of _spawnPoliceForWantedLevel: calls i..spawnCount
RECURSIVE spawnRound(_, _, _, _, _, _, _)
spawnRound(w, es, p, bs, draws, i, spawnCount) ==
  IF i > spawnCount THEN es
  ELSE spawnRound(w, spawnPolice(w, es, p, bs, draws[i]), p, bs, draws, i + 1, spawnCount)

\* WantedSystem._spawnPoliceForWantedLevel(deltaTime)
spawnPoliceForWantedLevel(w, es, p, bs, dt, draws) ==
  IF w.lastSpawnTime + dt >= getSpawnInterval(w)
  THEN [w |-> [w EXCEPT !.lastSpawnTime = 0],
        es |-> spawnRound(w, es, p, bs, draws, 1, Min(w.currentWantedLevel, 3))]
  ELSE [w |-> [w EXCEPT !.lastSpawnTime = @ + dt], es |-> es]

\* WantedSystem.update(deltaTime): the wanted system and the police list after the call
WantedUpdate(w, es, p, bs, dt, draws) ==
  spawnPoliceForWantedLevel(updateWantedLevel([w EXCEPT !.survivalTime = @ + dt]),
                            es, p, bs, dt, draws)

(***************************************************************************)
(* Game: one _update(deltaTime) per tick                                   *)
(***************************************************************************)
\* the number of ticks followed in one session
MaxTicks == 8

\* the tick deltas (ms) a session may run at
DtSet == {140, 250}

\* the input snapshots polled at the start of a tick
InputSet == {NoInput, [NoInput EXCEPT !.left = TRUE, !.boost = TRUE]}

\* every snapshot InputManager.getInput() can return
AllInputs ==
  [forward : BOOLEAN, backward : BOOLEAN, left : BOOLEAN, right : BOOLEAN, boost : BOOLEAN]

\* what the random draws of one spawn round of TrafficManager.update may ask for
SpawnBatches ==
  { << [lane |-> 0, laneOffset |-> 2500, spawnDistance |-> 30000, speed |-> 9000] >>,
    << [lane |-> 3, laneOffset |-> -2500, spawnDistance |-> 45000, speed |-> 14000],
       [lane |-> 1, laneOffset |-> -2500, spawnDistance |-> 25000, speed |-> 8000] >> }

\* the history before anything has happened
NoHist ==
  [ phase0 |-> "Normal", x0 |-> 0, z0 |-> 0, rotation0 |-> 0, dir0 |-> [x |-> 0, z |-> 0],
    updated |-> FALSE, inputFree |-> TRUE, trans |-> <<"Normal", "Normal">>,
    cause |-> "none", stunTime |-> 0, reverseTime |-> 0, ticks |-> 0, recrash |-> FALSE,
    crashed |-> FALSE ]

\* no method has been called on its own
NoCall == [kind |-> "none", calls |-> 0]

\* Game after startGame(): playing, about to run the first _update
NewGame(dt) ==
  [isPlaying |-> TRUE, pc |-> "player", tick |-> 0, dt |-> dt, gameOvers |-> 0, lateCalls |-> 0]

\* an order of the calls that lets the wanted system spawn before the collision
\* system has run, for comparison
afterStepSpawnFirst(pc) ==
  CASE pc = "player" -> "enemies"
    [] pc = "enemies" -> "traffic"
    [] pc = "traffic" -> "wanted"
    [] pc = "wanted" -> "collision"
    [] pc = "collision" -> "finish"
    [] OTHER -> "player"

\* the order of the calls in Game._update: the position after the one at pc
afterStep(pc) ==
  CASE pc = "player" -> "enemies"
    [] pc = "enemies" -> "traffic"
    [] pc = "traffic" -> "collision"
    [] pc = "collision" -> "wanted"
    [] pc = "wanted" -> "finish"
    [] OTHER -> "player"

\* Game._update, "this.player.setInput(input); this.player.update(deltaTime)"
PlayerStep(input) ==
  /\ game.pc = "player"
  /\ game.isPlaying
  /\ game.tick < MaxTicks
  /\ player' = PlayerUpdate(player, input, game.dt)
  /\ LET acts == player.isAlive /\ ~player.isTrapped
     IN hist' = [hist EXCEPT
          !.phase0 = Phase(player), !.x0 = player.x, !.z0 = player.z,
          !.rotation0 = player.rotation, !.dir0 = player.crashReverseDirection,
          !.updated = acts,
          !.inputFree = (Phase(player) = "Normal"
                         \/ \A i \in AllInputs : PlayerUpdate(player, i, game.dt) = player'),
          !.trans = <<Phase(player), Phase(player')>>,
          !.crashed = FALSE,
          !.stunTime = IF acts /\ Phase(player) = "Stunned" THEN @ + game.dt ELSE @,
          !.reverseTime = IF acts /\ Phase(player) = "Reversing" THEN @ + game.dt ELSE @,
          !.ticks = IF acts /\ Phase(player) # "Normal" THEN @ + 1 ELSE @]
  /\ game' = [game EXCEPT !.pc = afterStep(game.pc)]
  /\ UNCHANGED <<enemies, traffic, buildings, cs, call, wanted>>

\* Game._update, "this.enemies.forEach((enemy) => enemy.update(deltaTime))"
EnemiesStep ==
  /\ game.pc = "enemies"
  /\ enemies' = EnemiesUpdate(enemies, 1, game.dt, buildings, player)
  /\ game' = [game EXCEPT !.pc = afterStep(game.pc)]
  /\ UNCHANGED <<player, traffic, buildings, cs, hist, call, wanted>>

\* Game._update, "this.trafficManager.update(deltaTime)"
TrafficStep(batch) ==
  /\ game.pc = "traffic"
  /\ traffic' = TrafficManagerUpdate(traffic, game.dt, batch, buildings)
  /\ game' = [game EXCEPT !.pc = afterStep(game.pc)]
  /\ UNCHANGED <<player, enemies, buildings, cs, hist, call, wanted>>

\* the assignments CollisionSystem.update leaves behind, r being its outcome
CollisionOutcome(r) ==
  /\ cs' = r.cs
  /\ player' = r.p
  /\ enemies' = r.es
  /\ traffic' = [traffic EXCEPT !.cars = r.cars]
  /\ hist' = IF r.crash = "none"
             THEN [hist EXCEPT !.trans = <<Phase(player), Phase(r.p)>>, !.crashed = FALSE]
             ELSE [hist EXCEPT !.trans = <<Phase(player), Phase(r.p)>>, !.crashed = TRUE,
                               !.cause = r.crash, !.stunTime = 0, !.reverseTime = 0,
                               !.ticks = 0,
                               !.recrash = @ \/ Phase(player) # "Normal"]

\* Game._update, "this.collisionSystem.update(deltaTime)"
CollisionStep ==
  /\ game.pc = "collision"
  /\ CollisionOutcome(CollisionUpdate(cs, player, enemies, traffic.cars, buildings, game.dt))
  /\ game' = [game EXCEPT !.pc = afterStep(game.pc)]
  /\ UNCHANGED <<buildings, call, wanted>>

\* what the random draws of one spawn round of WantedSystem.update may be; ox
\* is the pursuitOffset.x the constructor of the new car draws,
\* (Math.random() - 0.5) * 10 for Math.random() = 0.166 and 0.834
SpawnDraws ==
  { [i \in 1..3 |-> [direction |-> k, u |-> 250 * i, laneOffset |-> 4000 * (k - 2), altU |-> 500,
                      altLaneOffset |-> -4000, ox |-> 3340 * (k - 2)]] : k \in {1, 3} }

\* Game._update, "this.wantedSystem.update(deltaTime)"
WantedStep(draws) ==
  /\ game.pc = "wanted"
  /\ LET r == WantedUpdate(wanted, enemies, player, buildings, game.dt, draws)
     IN /\ wanted' = r.w
        /\ enemies' = r.es
  /\ game' = [game EXCEPT !.pc = afterStep(game.pc)]
  /\ UNCHANGED <<player, traffic, buildings, cs, hist, call>>

\* a gameOver() without the "if (!this.isPlaying) return", for comparison
gameOverUnguarded(g) == [g EXCEPT !.isPlaying = FALSE, !.gameOvers = @ + 1]

\* Game.gameOver(): the session marked not playing, the loop stopped and the
\* game-over menu shown (counted in gameOvers), unless already handled
gameOver(g) ==
  IF ~g.isPlaying THEN g
  ELSE [g EXCEPT !.isPlaying = FALSE, !.gameOvers = @ + 1]

\* Game._update, the end of the tick: "if (!this.player.isAlive)
\* this.gameOver()"
FinishTick ==
  /\ game.pc = "finish"
  /\ game' = IF ~player.isAlive
             THEN [gameOver(game) EXCEPT !.pc = afterStep(game.pc), !.tick = @ + 1]
             ELSE [game EXCEPT !.pc = afterStep(game.pc), !.tick = @ + 1]
  /\ UNCHANGED <<player, enemies, traffic, buildings, cs, hist, call, wanted>>

\* the number of gameOver() calls followed after the end of a session
MaxLateCalls == 2

\* gameOver() invoked again once the session has ended (by _handlePlayerCaught
\* or by an _update the stopped loop still runs)
GameOverAgain ==
  /\ game.pc = "player"
  /\ ~game.isPlaying
  /\ game.lateCalls < MaxLateCalls
  /\ game' = [gameOver(game) EXCEPT !.lateCalls = @ + 1]
  /\ UNCHANGED <<player, enemies, traffic, buildings, cs, hist, call, wanted>>

\* the state at the end of a tick
EndOfTick == game.pc = "player" /\ game.tick > 0

(***************************************************************************)
(* Sessions                                                                *)
(***************************************************************************)
\* City.getBuildings(): the four buildings nearest the origin tile's
\* crossroads (grid points of _getBuildingDataForTile, sizes in its ranges);
\* no session followed here leaves their neighbourhood
City ==
  << [x |-> 38500, z |-> 38500, width |-> 14000, depth |-> 12000],
     [x |-> -42500, z |-> 38500, width |-> 20000, depth |-> 16000],
     [x |-> 38500, z |-> -42500, width |-> 10000, depth |-> 8000],
     [x |-> -42500, z |-> -42500, width |-> 22000, depth |-> 10000] >>

\* a player in normal driving at the given place, heading and speed
Driving(x, z, rotation, speed) ==
  [NewPlayer EXCEPT !.x = x, !.z = z, !.rotation = rotation, !.speed = speed,
                    !.targetSpeed = AUTO_FORWARD_SPEED,
                    !.vx = damp(Mul(speed, Sin(rotation))),
                    !.vz = damp(Mul(speed, Cos(rotation)))]

\* a police car in pursuit at the given place, heading and speed
Chasing(x, z, rotation, speed, ox) ==
  [NewEnemy(x, z, ox) EXCEPT !.rotation = rotation, !.targetRotation = rotation,
                             !.speed = speed,
                             !.vx = Mul(speed, Sin(rotation)), !.vz = Mul(speed, Cos(rotation))]

\* a session snapshot
Scenario(p, es, cars, spawnTimer) ==
  [player |-> p, enemies |-> es, traffic |-> [cars |-> cars, spawnTimer |-> spawnTimer]]

\* Game.startGame(): the player at the origin, three police cars behind it
StartScenario ==
  Scenario(NewPlayer,
           << NewEnemy(-30000, 40000, -4000), NewEnemy(30000, 40000, 0),
              NewEnemy(0, 50000, 4000) >>,
           << >>, 0)

\* the player about to run into the building at (38.5, 38.5) with police
\* cars closing in from the road side
BuildingScenarios ==
  { Scenario(Driving(26000, 38500, HalfPI, 22000), es, << >>, 280) :
      es \in { << Chasing(18000, 44000, HalfPI, 20000, 0) >>,
               << Chasing(24900, 28700, 0, 18000, 0) >>,
               << Chasing(17000, 38500, HalfPI, 23000, -4000),
                  Chasing(27000, 48000, PI, 20000, 0),
                  Chasing(27000, 29000, 0, 20000, 4000) >> } }

\* the player catching up a slow car in the lane x = 2.5 with a faster car
\* following in the same lane; the police are still far behind
TrafficScenario ==
  Scenario(Driving(2500, -40000, PI, 22000),
           << Chasing(-10000, 25000, PI, 23000, -4000), Chasing(12000, 30000, PI, 23000, 0),
              Chasing(0, 35000, PI, 23000, 4000) >>,
           << NewTrafficCar(2500, -44500, 0, 8000), NewTrafficCar(2500, -22000, 0, 15000) >>,
           140)

Scenarios == {StartScenario, TrafficScenario} \cup BuildingScenarios

\* the wanted system of a session snapshot: new at the start of a game, a spawn
\* round about to fall due in a pursuit under way
SessionWanted(s) ==
  IF s = StartScenario THEN NewWantedSystem
  ELSE [currentWantedLevel |-> 1, survivalTime |-> 7580, lastSpawnTime |-> 7580]

Init ==
  \E s \in Scenarios, dt \in DtSet :
    /\ player = s.player
    /\ enemies = s.enemies
    /\ traffic = s.traffic
    /\ buildings = City
    /\ cs = NewCollisionSystem
    /\ game = NewGame(dt)
    /\ hist = NoHist
    /\ wanted = SessionWanted(s)
    /\ call = NoCall

Next ==
  \/ \E input \in InputSet : PlayerStep(input)
  \/ EnemiesStep
  \/ \E batch \in SpawnBatches : TrafficStep(batch)
  \/ CollisionStep
  \/ \E draws \in SpawnDraws : WantedStep(draws)
  \/ FinishTick

Spec == Init /\ [][Next]_vars

\* the sessions again, with gameOver() invoked further times once they have ended
NextLate ==
  \/ Next
  \/ GameOverAgain

SpecLate == Init /\ [][NextLate]_vars

(***************************************************************************)
(* Single calls: the containment detector on a placed scene                *)
(***************************************************************************)
\* the number of detector calls followed on one scene
MaxChecks == 3

\* where the police cars of a scene may stand, as offsets from the player:
\* on the open road, and beside the west wall of the building at (38.5, 38.5)
OpenRoadOffsets ==
  << [x |-> 4000, z |-> 0], [x |-> -4000, z |-> 0], [x |-> 0, z |-> 4000],
     [x |-> 0, z |-> -4000], [x |-> 7000, z |-> 7000], [x |-> 12000, z |-> 0] >>

WallOffsets ==
  << [x |-> -4000, z |-> 0], [x |-> -150, z |-> 100], [x |-> -2000, z |-> 6000],
     [x |-> -2000, z |-> -6000], [x |-> -8000, z |-> 0], [x |-> -6000, z |-> 5200] >>

\* the scenes: the player in the middle of the crossroads, and the player
\* where a crash into the west wall of the building at (38.5, 38.5) leaves it
TrapScenes ==
  { [x |-> 0, z |-> 0, offsets |-> OpenRoadOffsets],
    [x |-> 28000, z |-> 38500, offsets |-> WallOffsets] }

\* the police list of a scene: one car at each chosen offset, in list order
RECURSIVE PoliceAt(_, _, _)
PoliceAt(scene, chosen, k) ==
  IF k > Len(scene.offsets) THEN << >>
  ELSE (IF k \in chosen
        THEN << Chasing(scene.x + scene.offsets[k].x, scene.z + scene.offsets[k].z, 0,
                        ENEMY_INITIAL_SPEED, 0) >>
        ELSE << >>) \o PoliceAt(scene, chosen, k + 1)

InitTrap ==
  \E scene \in TrapScenes, chosen \in SUBSET (1..6), dt \in DtSet :
    /\ Cardinality(chosen) \in 1..3
    /\ player = Driving(scene.x, scene.z, HalfPI, 0)
    /\ enemies = PoliceAt(scene, chosen, 1)
    /\ traffic = [cars |-> << >>, spawnTimer |-> 0]
    /\ buildings = City
    /\ cs = NewCollisionSystem
    /\ game = [NewGame(dt) EXCEPT !.pc = "call"]
    /\ hist = NoHist
    /\ wanted = NewWantedSystem
    /\ call = [kind |-> "trapped", calls |-> 0]

\* the assignments one call of _checkPlayerTrapped leaves behind
TrappedOutcome(r) ==
  /\ cs' = r.cs
  /\ player' = r.p

\* one call of CollisionSystem._checkPlayerTrapped(deltaTime)
TrappedCheck ==
  /\ call.kind = "trapped"
  /\ call.calls < MaxChecks
  /\ TrappedOutcome(checkPlayerTrapped(cs, player, enemies, buildings, game.dt))
  /\ call' = [call EXCEPT !.calls = @ + 1]
  /\ UNCHANGED <<enemies, traffic, buildings, game, hist, wanted>>

NextTrap == TrappedCheck

SpecTrap == InitTrap /\ [][NextTrap]_vars

(***************************************************************************)
(* Single calls: the player-police separation step, one police car         *)
(***************************************************************************)
\* the number of separation steps followed from one placement
MaxSeparations == 2

\* where the police car stands relative to the player before the step
SeparationOffsetsX == {-3050, -3000, -2000, 0, 10, 2000, 3000, 3050}

SeparationOffsetsZ == {-6000, -4700, -4600, -3000, 0, 5, 3000, 4600, 4700, 4750, 5400, 6000}

\* the player at full speed heading +z on the open crossroads, the police car
\* coming the other way at its catch-up speed
InitSep ==
  \E ox \in SeparationOffsetsX, oz \in SeparationOffsetsZ :
    /\ player = Driving(0, 0, 0, MAX_SPEED)
    /\ enemies = << Chasing(ox, oz, PI, ENEMY_CATCH_UP_SPEED, 0) >>
    /\ traffic = [cars |-> << >>, spawnTimer |-> 0]
    /\ buildings = City
    /\ cs = NewCollisionSystem
    /\ game = [NewGame(140) EXCEPT !.pc = "call"]
    /\ hist = NoHist
    /\ wanted = NewWantedSystem
    /\ call = [kind |-> "separation", calls |-> 0]

\* the assignments one call of _enforcePlayerPoliceSeparation leaves behind
SeparationOutcome(r) ==
  /\ player' = r.p
  /\ enemies' = r.es

\* one call of CollisionSystem._enforcePlayerPoliceSeparation()
SeparationStep ==
  /\ call.kind = "separation"
  /\ call.calls < MaxSeparations
  /\ SeparationOutcome(enforcePlayerPoliceSeparation(player, enemies, buildings))
  /\ call' = [call EXCEPT !.calls = @ + 1]
  /\ UNCHANGED <<traffic, buildings, cs, game, hist, wanted>>

NextSep == SeparationStep

SpecSep == InitSep /\ [][NextSep]_vars

(***************************************************************************)
(* Single calls: the player-police separation step, several police cars    *)
(***************************************************************************)
\* where a police car may stand relative to the player: closer than minDist,
\* its box clear of the player's, behind or to the left of the player, so
\* that no two of the normals from a car to the player oppose each other
CrowdOffsets ==
  { [x |-> -4000, z |-> 0], [x |-> 0, z |-> -5000], [x |-> -3000, z |-> -4000],
    [x |-> -5000, z |-> -1000], [x |-> -3500, z |-> -4000] }

\* the police lists followed: two or three cars on distinct places, in any
\* order of the list
CrowdLists ==
  { <<a, b>> : a \in CrowdOffsets, b \in CrowdOffsets }
  \cup { <<a, b, c>> : a \in CrowdOffsets, b \in CrowdOffsets, c \in CrowdOffsets }

Distinct(l) == \A i \in 1..Len(l), j \in 1..Len(l) : i # j => l[i] # l[j]

\* the player at full speed heading +z on the open crossroads, the police
\* cars at their catch-up speed
InitCrowd ==
  \E l \in {m \in CrowdLists : Distinct(m)} :
    /\ player = Driving(0, 0, 0, MAX_SPEED)
    /\ enemies = [k \in 1..Len(l) |-> Chasing(l[k].x, l[k].z, 0, ENEMY_CATCH_UP_SPEED, 0)]
    /\ traffic = [cars |-> << >>, spawnTimer |-> 0]
    /\ buildings = City
    /\ cs = NewCollisionSystem
    /\ game = [NewGame(140) EXCEPT !.pc = "call"]
    /\ hist = NoHist
    /\ wanted = NewWantedSystem
    /\ call = [kind |-> "separation", calls |-> 0]

SpecCrowd == InitCrowd /\ [][NextSep]_vars

(***************************************************************************)
(* Single calls: _resolveVehiclePair on one pair                           *)
(***************************************************************************)
\* the number of resolutions followed on one pair
MaxCalls == 2

\* the gap left between the facing edges of the two boxes on one axis
\* (negative: they overlap by that much; 0: the edges touch)
PairGaps == {-500, -50, 0, 50}

\* the offset of body B from body A on an axis where the half extents add up
\* to reach: centred, or on either side at one of the gaps
PairOffsets(reach) == {0} \cup {side * (reach + g) : side \in {-1, 1}, g \in PairGaps}

\* the pairs _enforcePlayerPoliceSeparation and _resolveInterVehicleCollisions
\* resolve, body A at the origin and body B at an offset (ox, oz)
PairScene(pair, ox, oz) ==
  CASE pair = "player-police" ->
         Scenario(Driving(0, 0, 0, AUTO_FORWARD_SPEED),
                  << Chasing(ox, oz, PI, ENEMY_CATCH_UP_SPEED, 0) >>, << >>, 0)
    [] pair = "police-police" ->
         Scenario(Driving(0, 60000, 0, AUTO_FORWARD_SPEED),
                  << Chasing(0, 0, 0, ENEMY_CATCH_UP_SPEED, -4000),
                     Chasing(ox, oz, HalfPI, ENEMY_INITIAL_SPEED, 4000) >>, << >>, 0)
    [] pair = "police-traffic" ->
         Scenario(Driving(0, 60000, 0, AUTO_FORWARD_SPEED),
                  << Chasing(0, 0, 0, ENEMY_CATCH_UP_SPEED, 0) >>,
                  << NewTrafficCar(ox, oz, 0, 9000) >>, 0)
    [] OTHER ->
         Scenario(Driving(0, 60000, 0, AUTO_FORWARD_SPEED), << >>,
                  << NewTrafficCar(0, 0, 1, 12000), NewTrafficCar(ox, oz, 0, 9000) >>, 0)

\* how far the half extents of the two boxes of a pair reach on x and on z
PairReach(pair) ==
  CASE pair = "player-police" ->
         [x |-> PlayerHalfWidth + EnemyHalfWidth, z |-> PlayerHalfLength + EnemyHalfLength]
    [] pair = "police-police" -> [x |-> 2 * EnemyHalfWidth, z |-> 2 * EnemyHalfLength]
    [] pair = "police-traffic" -> [x |-> EnemyHalfWidth + 900, z |-> EnemyHalfLength + 1600]
    [] OTHER -> [x |-> 1800, z |-> 3200]

PairKinds == {"player-police", "police-police", "police-traffic", "traffic-traffic"}

\* body A and body B of the pair under resolution
PairA ==
  CASE call.pair = "player-police" -> player
    [] call.pair = "traffic-traffic" -> traffic.cars[1]
    [] OTHER -> enemies[1]

PairB ==
  CASE call.pair = "player-police" -> enemies[1]
    [] call.pair = "police-police" -> enemies[2]
    [] call.pair = "police-traffic" -> traffic.cars[1]
    [] OTHER -> traffic.cars[2]

InitPair ==
  \E pair \in PairKinds :
    \E ox \in PairOffsets(PairReach(pair).x), oz \in PairOffsets(PairReach(pair).z) :
      /\ player = PairScene(pair, ox, oz).player
      /\ enemies = PairScene(pair, ox, oz).enemies
      /\ traffic = PairScene(pair, ox, oz).traffic
      /\ buildings = City
      /\ cs = NewCollisionSystem
      /\ game = [NewGame(140) EXCEPT !.pc = "call"]
      /\ hist = NoHist
      /\ wanted = NewWantedSystem
      /\ call = [kind |-> "pair", pair |-> pair, calls |-> 0, hit |-> FALSE,
                 a0 |-> PairScene(pair, ox, oz).player, b0 |-> PairScene(pair, ox, oz).player]

\* what every resolution records: the bodies before the call and its result
PairCalled(r) ==
  call' = [call EXCEPT !.calls = @ + 1, !.hit = r.hit, !.a0 = PairA, !.b0 = PairB]

\* the guard of every resolution followed here
PairTurn(pair) ==
  /\ call.kind = "pair"
  /\ call.pair = pair
  /\ call.calls < MaxCalls

\* the assignments a resolution of (player, police) leaves behind
PlayerPoliceOutcome(r) ==
  /\ player' = r.a
  /\ enemies' = [enemies EXCEPT ![1] = r.b]
  /\ PairCalled(r)

\* this._resolveVehiclePair(this.playerRef, enemy, {...}) on the open road
ResolvePlayerPolice ==
  /\ PairTurn("player-police")
  /\ PlayerPoliceOutcome(resolveVehiclePair(player, enemies[1], PlayerEnemyOptions(FALSE)))
  /\ UNCHANGED <<traffic, buildings, cs, game, hist, wanted>>

\* the assignments a resolution of (police, police) leaves behind
PolicePoliceOutcome(r) ==
  /\ enemies' = [enemies EXCEPT ![1] = r.a, ![2] = r.b]
  /\ PairCalled(r)

\* this._resolveVehiclePair(enemies[i], enemies[j], {...})
ResolvePolicePolice ==
  /\ PairTurn("police-police")
  /\ PolicePoliceOutcome(resolveVehiclePair(enemies[1], enemies[2], EnemyEnemyOptions))
  /\ UNCHANGED <<player, traffic, buildings, cs, game, hist, wanted>>

\* the assignments a resolution of (police, traffic) leaves behind
PoliceTrafficOutcome(r) ==
  /\ enemies' = [enemies EXCEPT ![1] = r.a]
  /\ traffic' = [traffic EXCEPT !.cars[1] = r.b]
  /\ PairCalled(r)

\* this._resolveVehiclePair(enemy, car, {...})
ResolvePoliceTraffic ==
  /\ PairTurn("police-traffic")
  /\ PoliceTrafficOutcome(resolveVehiclePair(enemies[1], traffic.cars[1], EnemyTrafficOptions))
  /\ UNCHANGED <<player, buildings, cs, game, hist, wanted>>

\* the assignments a resolution of (traffic, traffic) leaves behind
TrafficTrafficOutcome(r) ==
  /\ traffic' = [traffic EXCEPT !.cars[1] = r.a, !.cars[2] = r.b]
  /\ PairCalled(r)

\* this._resolveVehiclePair(trafficCars[i], trafficCars[j], {...})
ResolveTrafficTraffic ==
  /\ PairTurn("traffic-traffic")
  /\ TrafficTrafficOutcome(resolveVehiclePair(traffic.cars[1], traffic.cars[2],
                                              TrafficTrafficOptions))
  /\ UNCHANGED <<player, enemies, buildings, cs, game, hist, wanted>>

NextPair ==
  \/ ResolvePlayerPolice
  \/ ResolvePolicePolice
  \/ ResolvePoliceTraffic
  \/ ResolveTrafficTraffic

SpecPair == InitPair /\ [][NextPair]_vars

(***************************************************************************)
(* WantedSystem.update called on sessions in progress                      *)
(***************************************************************************)
MaxUpdates == 3

\* the survival times (ms) a followed session has reached: its start and the
\* quarter second before each threshold, and one past the last threshold
SurvivalSnapshots == {0, 19750, 39750, 69750, 99750, 119750}

\* the police cars of a session in progress, n of them, away from the player
PoliceOnPatrol(n) ==
  [i \in 1..n |-> Chasing(8000 * i - 100000, -60000, 0, ENEMY_INITIAL_SPEED, 0)]

\* the wanted system of a session that has survived for survivalTime, with
\* the next spawn round due after `due` more ms
WantedAfter(survivalTime, due) ==
  [currentWantedLevel |-> levelFor(survivalTime, 1, 1),
   survivalTime |-> survivalTime,
   lastSpawnTime |-> getSpawnInterval([currentWantedLevel |-> levelFor(survivalTime, 1, 1)]) - due]

InitWanted ==
  \E survivalTime \in SurvivalSnapshots, due \in {250, 500, 2000}, short \in 0..2, dt \in DtSet :
    /\ wanted = WantedAfter(survivalTime, due)
    /\ enemies = PoliceOnPatrol(getMaxPoliceCount(WantedAfter(survivalTime, due)) - short)
    /\ player = Driving(0, 60000, 0, AUTO_FORWARD_SPEED)
    /\ traffic = [cars |-> << >>, spawnTimer |-> 0]
    /\ buildings = City
    /\ cs = NewCollisionSystem
    /\ game = [NewGame(dt) EXCEPT !.pc = "call"]
    /\ hist = NoHist
    /\ call = [kind |-> "wanted", updates |-> 0, before |-> 0]

\* this.wantedSystem.update(deltaTime), with the draws of its spawn round
WantedCall(draws) ==
  /\ call.kind = "wanted"
  /\ call.updates < MaxUpdates
  /\ LET r == WantedUpdate(wanted, enemies, player, buildings, game.dt, draws)
     IN /\ wanted' = r.w
        /\ enemies' = r.es
  /\ call' = [call EXCEPT !.updates = @ + 1, !.before = Len(enemies)]
  /\ UNCHANGED <<player, traffic, buildings, cs, game, hist>>

NextWanted == \E draws \in SpawnDraws : WantedCall(draws)

SpecWanted == InitWanted /\ [][NextWanted]_vars

(***************************************************************************)
(* PlayerCar.update called with every kind of input                        *)
(***************************************************************************)
MaxDrives == 4

\* the input snapshots polled while driving: nothing, reverse, boost, steering
DriveInputs ==
  {NoInput, [NoInput EXCEPT !.backward = TRUE], [NoInput EXCEPT !.boost = TRUE],
   [NoInput EXCEPT !.left = TRUE], [NoInput EXCEPT !.right = TRUE, !.forward = TRUE],
   [NoInput EXCEPT !.backward = TRUE, !.boost = TRUE]}

\* a player in normal driving away from every building with the boost active
\* for `left` more ms
Boosting(speed, left) ==
  [Driving(0, 0, PI, speed) EXCEPT !.targetSpeed = Mul(MAX_SPEED, BOOST_MULTIPLIER),
                                   !.boostActive = TRUE, !.boostTimeRemaining = left]

\* the players followed: at the start of a game, cruising, at full reverse,
\* at full boost with the boost about to end, and just crashed into a building
DriveSnapshots ==
  {NewPlayer, Driving(0, 0, PI, AUTO_FORWARD_SPEED),
   [Driving(0, 0, PI, -Mul(AUTO_FORWARD_SPEED, 600)) EXCEPT !.targetSpeed = -Mul(AUTO_FORWARD_SPEED, 600)],
   Boosting(Mul(MAX_SPEED, BOOST_MULTIPLIER), 250), Boosting(Mul(MAX_SPEED, BOOST_MULTIPLIER), 500),
   Boosting(30000, 1500),
   handlePlayerBuildingCollision(Driving(26000, 38500, PI \div 2, AUTO_FORWARD_SPEED), City[1])}

InitDrive ==
  \E p \in DriveSnapshots, dt \in DtSet :
    /\ player = p
    /\ enemies = << >>
    /\ traffic = [cars |-> << >>, spawnTimer |-> 0]
    /\ buildings = City
    /\ cs = NewCollisionSystem
    /\ wanted = NewWantedSystem
    /\ game = [NewGame(dt) EXCEPT !.pc = "call"]
    /\ hist = NoHist
    /\ call = [kind |-> "drive", updates |-> 0]

\* playerRef.setInput(input); playerRef.update(deltaTime)
Drive(input) ==
  /\ call.kind = "drive"
  /\ call.updates < MaxDrives
  /\ player' = PlayerUpdate(player, input, game.dt)
  /\ call' = [call EXCEPT !.updates = @ + 1]
  /\ UNCHANGED <<enemies, traffic, buildings, cs, wanted, game, hist>>

NextDrive == \E input \in DriveInputs : Drive(input)

SpecDrive == InitDrive /\ [][NextDrive]_vars

(***************************************************************************)
(* PlayerCar.update called tick after tick with the boost key as the only  *)
(* input, long enough for a boost, its cooldown and the next boost         *)
(***************************************************************************)
MaxBoostUpdates == 40

\* the boost key held or released
BoostInputs == {NoInput, [NoInput EXCEPT !.boost = TRUE]}

\* sinceEnd is the simulation time (ms) the updates have advanced since the
\* update in which the last boost ended (-1: none has ended yet); started
\* tells that the last update activated the boost
InitBoost ==
  \E p \in {NewPlayer, Boosting(Mul(MAX_SPEED, BOOST_MULTIPLIER), 250)}, dt \in DtSet :
    /\ player = p
    /\ enemies = << >>
    /\ traffic = [cars |-> << >>, spawnTimer |-> 0]
    /\ buildings = City
    /\ cs = NewCollisionSystem
    /\ wanted = NewWantedSystem
    /\ game = [NewGame(dt) EXCEPT !.pc = "call"]
    /\ hist = NoHist
    /\ call = [kind |-> "boost", updates |-> 0, sinceEnd |-> -1, started |-> FALSE]

\* the bookkeeping of one update that took the player from p to q
BoostClock(p, q) ==
  [call EXCEPT !.updates = @ + 1,
               !.started = ~p.boostActive /\ q.boostTimeRemaining > p.boostTimeRemaining,
               !.sinceEnd = IF p.boostActive /\ ~q.boostActive THEN 0
                            ELSE IF @ < 0 THEN @
                            ELSE @ + game.dt]

\* playerRef.setInput(input); playerRef.update(deltaTime)
BoostUpdate(input) ==
  /\ call.kind = "boost"
  /\ call.updates < MaxBoostUpdates
  /\ player' = PlayerUpdate(player, input, game.dt)
  /\ call' = BoostClock(player, player')
  /\ UNCHANGED <<enemies, traffic, buildings, cs, wanted, game, hist>>

NextBoost == \E input \in BoostInputs : BoostUpdate(input)

SpecBoost == InitBoost /\ [][NextBoost]_vars

(***************************************************************************)
(* EnemyChaser.update of one police car beside a building, the player on   *)
(* the far side of it                                                      *)
(***************************************************************************)
MaxAvoidUpdates == 2

\* the gap (on the axis of the face) between the box of the police car and
\* the padded footprint
AvoidGaps == {50, 500}

\* where along the face the police car stands, from the middle of the face
\* to its corner
AvoidAlong == {-9000, -8400, -5000, 0, 5000, 8400, 9000}

\* the centre of the police car relative to the centre of the building: over
\* the +z face and beside the +x face of the footprint padded by 2
AvoidOffsets ==
  { [x |-> a, z |-> City[1].depth \div 2 + 2000 + EnemyHalfLength + g] :
      a \in AvoidAlong, g \in AvoidGaps }
  \cup { [x |-> City[1].width \div 2 + 2000 + EnemyHalfWidth + g, z |-> a] :
           a \in AvoidAlong, g \in AvoidGaps }

\* where the player drives, relative to the centre of the building
AvoidPlayers == { [x |-> 0, z |-> -20000], [x |-> -20000, z |-> 0], [x |-> -20000, z |-> -20000] }

\* the police car heads for the player
InitAvoid ==
  \E o \in AvoidOffsets, q \in AvoidPlayers, dt \in DtSet,
     speed \in {ENEMY_INITIAL_SPEED, ENEMY_CATCH_UP_SPEED} :
    /\ player = Driving(City[1].x + q.x, City[1].z + q.z, 0, AUTO_FORWARD_SPEED)
    /\ enemies = << Chasing(City[1].x + o.x, City[1].z + o.z, Atan2(q.x - o.x, q.z - o.z),
                            speed, 0) >>
    /\ traffic = [cars |-> << >>, spawnTimer |-> 0]
    /\ buildings = City
    /\ cs = NewCollisionSystem
    /\ wanted = NewWantedSystem
    /\ game = [NewGame(dt) EXCEPT !.pc = "call"]
    /\ hist = NoHist
    /\ call = [kind |-> "avoid", updates |-> 0]

\* this.enemies.forEach((enemy) => enemy.update(deltaTime))
AvoidUpdate ==
  /\ call.kind = "avoid"
  /\ call.updates < MaxAvoidUpdates
  /\ enemies' = EnemiesUpdate(enemies, 1, game.dt, buildings, player)
  /\ call' = [call EXCEPT !.updates = @ + 1]
  /\ UNCHANGED <<player, traffic, buildings, cs, wanted, game, hist>>

NextAvoid == AvoidUpdate

SpecAvoid == InitAvoid /\ [][NextAvoid]_vars

(***************************************************************************)
(* CollisionSystem._checkPlayerBuildingCollisions called on its own        *)
(***************************************************************************)
MaxCrashChecks == 2

\* where the player's centre stands relative to the centre of the building,
\* on x and on z: from the centre itself and 0.005 off it, through deep inside,
\* to just touching the padded footprint and clear of it
CrashOffsetsX == {-12000, -11000, -9000, -3000, 0, 3000, 9000, 11000}

CrashOffsetsZ == {-12000, -10250, -9000, -3000, 0, 5, 3000, 9000, 10250}

InitCrash ==
  \E ox \in CrashOffsetsX, oz \in CrashOffsetsZ, rotation \in {0, HalfPI} :
    /\ player = Driving(City[1].x + ox, City[1].z + oz, rotation, AUTO_FORWARD_SPEED)
    /\ enemies = << >>
    /\ traffic = [cars |-> << >>, spawnTimer |-> 0]
    /\ buildings = City
    /\ cs = NewCollisionSystem
    /\ wanted = NewWantedSystem
    /\ game = [NewGame(140) EXCEPT !.pc = "call"]
    /\ hist = NoHist
    /\ call = [kind |-> "crash", calls |-> 0, hit |-> FALSE, x0 |-> 0, z0 |-> 0]

\* the assignments a call of _checkPlayerBuildingCollisions leaves behind
CrashOutcome(r) ==
  /\ player' = r.p
  /\ cs' = [cs EXCEPT !.collisionCooldown = r.cooldown]
  /\ call' = [call EXCEPT !.calls = @ + 1, !.hit = r.hit, !.x0 = player.x, !.z0 = player.z]

\* this._checkPlayerBuildingCollisions()
CheckBuildings ==
  /\ call.kind = "crash"
  /\ call.calls < MaxCrashChecks
  /\ CrashOutcome(checkPlayerBuildingCollisions(cs.collisionCooldown, player, buildings))
  /\ UNCHANGED <<enemies, traffic, buildings, wanted, game, hist>>

NextCrash == CheckBuildings

SpecCrash == InitCrash /\ [][NextCrash]_vars

(***************************************************************************)
(* _resolveVehiclePair on two velocity-carrying bodies, options drawn      *)
(***************************************************************************)
MaxImpulses == 2

\* the velocities (vx, vz) a body may carry into a resolution: at rest, along
\* either axis in either direction, and oblique
ImpulseVelocities ==
  { <<0, 0>>, <<20000, 0>>, <<-20000, 0>>, <<0, 20000>>, <<0, -20000>>, <<12000, 9000>>,
    <<-9000, -12000>> }

\* where the police car stands relative to the player: overlapping by 0.05 on
\* one axis, centred on the other, on each of the four sides
ImpulseSides ==
  { <<PlayerHalfWidth + EnemyHalfWidth - 50, 0>>, <<-(PlayerHalfWidth + EnemyHalfWidth - 50), 0>>,
    <<0, PlayerHalfLength + EnemyHalfLength - 50>>, <<0, -(PlayerHalfLength + EnemyHalfLength - 50)>> }

\* the options of a call: equal masses, elasticity 0.4 (the default) or 1,
\* friction 0, 0.6 (the default) or 1
ImpulseOptions ==
  { [DefaultOptions EXCEPT !.elasticity = e, !.friction = f] : e \in {400, 1000}, f \in {0, 600, 1000} }

InitImpulse ==
  \E va \in ImpulseVelocities, vb \in ImpulseVelocities, side \in ImpulseSides, o \in ImpulseOptions :
    /\ player = [Driving(0, 0, 0, AUTO_FORWARD_SPEED) EXCEPT !.vx = va[1], !.vz = va[2]]
    /\ enemies = << [Chasing(side[1], side[2], 0, ENEMY_INITIAL_SPEED, 0)
                       EXCEPT !.vx = vb[1], !.vz = vb[2]] >>
    /\ traffic = [cars |-> << >>, spawnTimer |-> 0]
    /\ buildings = City
    /\ cs = NewCollisionSystem
    /\ wanted = NewWantedSystem
    /\ game = [NewGame(140) EXCEPT !.pc = "call"]
    /\ hist = NoHist
    /\ call = [kind |-> "impulse", calls |-> 0, hit |-> FALSE, o |-> o,
               a0 |-> Driving(0, 0, 0, AUTO_FORWARD_SPEED), b0 |-> Driving(0, 0, 0, AUTO_FORWARD_SPEED)]

\* the assignments a resolution of (player, police) with drawn options leaves
ImpulseOutcome(r) ==
  /\ player' = r.a
  /\ enemies' = [enemies EXCEPT ![1] = r.b]
  /\ call' = [call EXCEPT !.calls = @ + 1, !.hit = r.hit, !.a0 = player, !.b0 = enemies[1]]

\* this._resolveVehiclePair(this.playerRef, enemy, options)
ResolveImpulse ==
  /\ call.kind = "impulse"
  /\ call.calls < MaxImpulses
  /\ ImpulseOutcome(resolveVehiclePair(player, enemies[1], call.o))
  /\ UNCHANGED <<traffic, buildings, cs, wanted, game, hist>>

NextImpulse == ResolveImpulse

SpecImpulse == InitImpulse /\ [][NextImpulse]_vars

(***************************************************************************)
(* Properties                                                              *)
(***************************************************************************)
\* the police cars less than r from the point (x, z)
PoliceWithin(x, z, r) ==
  {k \in 1..Len(enemies) : Hypot(x - enemies[k].x, z - enemies[k].z) < r}

\* the probe directions (indices of dirs) a police car blocks, and those a
\* building blocks, for the player where it stands
PoliceBlockedProbes ==
  {k \in 1..8 : PoliceWithin(player.x + dirs[k].x * 5, player.z + dirs[k].z * 5, 5000) # {}}

BuildingBlockedProbes ==
  {k \in 1..8 : anyFootprint(player.x + dirs[k].x * 5, player.z + dirs[k].z * 5, buildings, 2500)}

\* C1: at every evaluation of the containment detector the player is Trapped
\* if and only if at least 3 police cars are within 10 units, at least 6 of
\* the 8 probes are blocked and at least 4 probes are blocked by a police car;
\* one nearby police car with 7 of 8 probes blocked is never Trapped
C1_TrappedIffAllThree ==
  cs.evaluated =>
    /\ player.isTrapped <=>
         /\ Cardinality(PoliceWithin(player.x, player.z, 10000)) >= 3
         /\ Cardinality(PoliceBlockedProbes \cup BuildingBlockedProbes) >= 6
         /\ Cardinality(PoliceBlockedProbes) >= 4
    /\ Cardinality(PoliceWithin(player.x, player.z, 10000)) = 1
         /\ Cardinality(PoliceBlockedProbes \cup BuildingBlockedProbes) >= 7
       => ~player.isTrapped

\* the detector has evaluated a scene with three police cars and declared the
\* player Trapped
C1_Witness ==
  /\ call.kind = "trapped"
  /\ cs.evaluated
  /\ player.isTrapped
  /\ Len(enemies) = 3

\* C2: once the trapped flag is set, no step of the session (player update,
\* police update, traffic update, collision pass with its detector call, end of
\* tick) clears it
C2_TrappedOneWay == [][player.isTrapped => player'.isTrapped]_vars

\* a Trapped player has gone through its next update (die) and the session
\* has ended, the flag still set
C2_Witness ==
  /\ player.isTrapped
  /\ ~player.isAlive
  /\ game.gameOvers = 1

\* the phase changes a recovery may make, one step at a time
RecoverySteps ==
  { <<"Normal", "Normal">>, <<"Normal", "Stunned">>, <<"Stunned", "Stunned">>,
    <<"Stunned", "Reversing">>, <<"Reversing", "Reversing">>, <<"Reversing", "Normal">> }

\* C3: after a player-building collision the phases follow Normal -> Stunned
\* -> Reversing -> Normal: the crash leaves the player Stunned in that very
\* tick, Stunned is entered only by a crash from Normal, Reversing only from
\* Stunned, Normal only from Reversing, and no crash restarts the recovery
C3_RecoveryOrder ==
  hist.cause = "building" =>
    /\ hist.trans \in RecoverySteps
    /\ hist.crashed <=> hist.trans = <<"Normal", "Stunned">>
    /\ ~hist.recrash

\* a recovery started by a building crash has run to its end
C3_Witness ==
  /\ hist.cause = "building"
  /\ hist.trans = <<"Reversing", "Normal">>
  /\ ~player.isCrashed

\* C4: at the end of every tick in which the player is Stunned its velocity is
\* (0, 0) and its speed is 0
C4_StunnedAtRest ==
  EndOfTick /\ Phase(player) = "Stunned" =>
    player.vx = 0 /\ player.vz = 0 /\ player.speed = 0

\* C5: in every tick the player starts Reversing, its displacement over the
\* tick lies along the captured reverse direction (no sideways part beyond
\* rounding), its heading is unchanged, and no input changes what its update does
C5_ReverseAlongCaptured ==
  EndOfTick /\ hist.phase0 = "Reversing" /\ hist.updated =>
    /\ Abs((player.x - hist.x0) * hist.dir0.z - (player.z - hist.z0) * hist.dir0.x) <= 5000
    /\ (player.x - hist.x0) * hist.dir0.x + (player.z - hist.z0) * hist.dir0.z >= 0
    /\ player.rotation = hist.rotation0
    /\ hist.inputFree

\* the number of player updates a building recovery takes at tick delta dt (ms)
RecoveryTicks(dt) == (200 + dt - 1) \div dt + (800 + dt - 1) \div dt

C7_NoCrashInRecovery ==
  [][Phase(player) # "Normal" =>
       \/ Phase(player') = "Normal"
       \/ /\ player'.crashStunTimer <= player.crashStunTimer
          /\ player'.crashReverseTimer <= player.crashReverseTimer
          /\ player'.crashReverseDirection = player.crashReverseDirection]_vars

\* C8: with one police car and no building near, after the separation step
\* the centre distance of player and police car is at least minDist (to
\* within rounding of 0.005)
C8_MinimumDistance ==
  call.kind = "separation" /\ call.calls > 0 =>
    Hypot(player.x - enemies[1].x, player.z - enemies[1].z) >= minDist - 5

\* the overlap of the boxes of two bodies on x and on z (negative: a gap)
OverlapX(a, b) == Min(BoxOf(a).maxx, BoxOf(b).maxx) - Max(BoxOf(a).minx, BoxOf(b).minx)

OverlapZ(a, b) == Min(BoxOf(a).maxz, BoxOf(b).maxz) - Max(BoxOf(a).minz, BoxOf(b).minz)

\* C9: resolving a pair whose boxes do not overlap on x or do not overlap on z
\* (touching edges included) returns false and leaves both bodies as they were
C9_SeparatedPairNoOp ==
  /\ call.kind = "pair"
  /\ call.calls > 0
  /\ OverlapX(call.a0, call.b0) <= 0 \/ OverlapZ(call.a0, call.b0) <= 0
  => /\ ~call.hit
     /\ PairA = call.a0
     /\ PairB = call.b0

\* a pair with touching edges has been resolved twice and nothing has changed
C9_Witness ==
  /\ call.kind = "pair"
  /\ call.calls >= 2
  /\ OverlapX(call.a0, call.b0) = 0
  /\ OverlapZ(call.a0, call.b0) > 0
  /\ ~call.hit

\* the move of a body and the centre offset of a pair along the axis of least
\* penetration of the pair (a0, b0); ties go to z as in _computeMTV2D
AlongLeastAxis(a0, b0, dx, dz) == IF OverlapX(a0, b0) < OverlapZ(a0, b0) THEN dx ELSE dz

LeastOverlap(a0, b0, a, b) ==
  IF OverlapX(a0, b0) < OverlapZ(a0, b0) THEN OverlapX(a, b) ELSE OverlapZ(a, b)

\* C10: for an overlapping pair the position correction moves A and B in
\* opposite directions along the axis of least penetration, each away from
\* the other's centre, and the penetration on that axis is strictly smaller
\* after the call
C10_PushedApart ==
  call.kind = "pair" /\ call.calls > 0 /\ call.hit =>
    /\ AlongLeastAxis(call.a0, call.b0, PairA.x - call.a0.x, PairA.z - call.a0.z)
         * AlongLeastAxis(call.a0, call.b0, PairB.x - call.b0.x, PairB.z - call.b0.z) < 0
    /\ AlongLeastAxis(call.a0, call.b0, PairA.x - call.a0.x, PairA.z - call.a0.z)
         * AlongLeastAxis(call.a0, call.b0, call.a0.x - call.b0.x, call.a0.z - call.b0.z) >= 0
    /\ AlongLeastAxis(call.a0, call.b0, PairB.x - call.b0.x, PairB.z - call.b0.z)
         * AlongLeastAxis(call.a0, call.b0, call.b0.x - call.a0.x, call.b0.z - call.a0.z) >= 0
    /\ LeastOverlap(call.a0, call.b0, PairA, PairB)
         < LeastOverlap(call.a0, call.b0, call.a0, call.b0)

\* the steps of a tick in the order C11 states, and the place of a step in it
TickOrder == <<"player", "enemies", "traffic", "collision", "wanted", "finish">>

StepIndex(pc) == CHOOSE i \in 1..Len(TickOrder) : TickOrder[i] = pc

\* C11: within a tick the steps run in the order player, police, traffic,
\* collision system, spawn controller; the police list grows only in the step
\* of the spawn controller, after the collision system; and the verdict of the
\* containment check is the one for the positions the collision system leaves
C11_TickOrder ==
  [][/\ StepIndex(game'.pc) = (StepIndex(game.pc) % Len(TickOrder)) + 1
     /\ Len(enemies') # Len(enemies) => game.pc = "wanted"
     /\ game.pc = "collision" /\ cs'.evaluated
          => cs'.verdict = boxedIn(player', enemies', buildings')]_vars

\* a tick in which the detector has evaluated and the spawn controller has
\* then added a police car
C11_Witness ==
  /\ game.pc = "finish"
  /\ cs.evaluated
  /\ wanted.lastSpawnTime = 0
  /\ wanted.survivalTime > 0
  /\ Len(enemies) = 4

\* the number of thresholds the survival time has reached
ThresholdsReached(survivalTime) ==
  Cardinality({i \in 1..Len(WANTED_THRESHOLDS) : WANTED_THRESHOLDS[i] <= survivalTime})

\* C12: after every update of the wanted system the wanted level equals the
\* number of thresholds (0, 20, 40, 70, 100 s) the accumulated survival time
\* has reached; it never decreases and stays within 1..5
C12_LevelFromSurvivalTime ==
  [][/\ wanted'.currentWantedLevel = ThresholdsReached(wanted'.survivalTime)
     /\ wanted'.currentWantedLevel >= wanted.currentWantedLevel
     /\ wanted'.currentWantedLevel \in 1..5]_vars

\* an update that has raised the level at the very moment a threshold is reached
C12_Witness ==
  /\ call.kind = "wanted"
  /\ call.updates = 1
  /\ wanted.survivalTime = 20000
  /\ wanted.currentWantedLevel = 2

C14_SpeedWithinLimits ==
  [][/\ 10 * player'.speed >= -6 * AUTO_FORWARD_SPEED
     /\ player'.boostActive => 10 * player'.speed <= 18 * MAX_SPEED
     /\ ~player'.boostActive => player'.speed <= MAX_SPEED]_vars

\* an update in which the boost has run out at full boosted speed
C14_Witness ==
  /\ call.kind = "drive"
  /\ call.updates > 0
  /\ ~player.boostActive
  /\ player.boostCooldownRemaining = BOOST_COOLDOWN
  /\ player.speed = MAX_SPEED

\* a player update in the normal phase, and the acceleration step of the tick
NormalTick == call.kind = "drive" /\ Phase(player) = "Normal" /\ player.isAlive /\ ~player.isTrapped

AccelerationStep == (ACCELERATION_PER_S * game.dt) \div 1000

\* the speed after a normal tick lies between the speed before it and the target
TowardTarget ==
  \/ player.speed <= player'.speed /\ player'.speed <= player'.targetSpeed
  \/ player.speed >= player'.speed /\ player'.speed >= player'.targetSpeed

\* while the target is unchanged the distance to it shrinks by the step or to 0
ClosesOnTarget ==
  player'.targetSpeed = player.targetSpeed
    => Abs(player'.speed - player'.targetSpeed)
         <= Max(Abs(player.speed - player.targetSpeed) - AccelerationStep, 0)

\* the tick in which the boost ends above MAX_SPEED: the speed is cut to MAX_SPEED
BoostEndsAboveMax ==
  /\ player.boostActive /\ ~player'.boostActive
  /\ player.speed > MAX_SPEED
  /\ player'.speed = MAX_SPEED

\* C15 as stated: in every normal tick the speed moves toward targetSpeed by
\* at most ACCELERATION * 60 * dt without overshooting, and while targetSpeed
\* is unchanged the distance to it never grows and reaches 0 in finitely many
\* ticks (it shrinks by a whole step until it is 0)
C15_ConvergesAtFixedRate ==
  [][NormalTick =>
       /\ TowardTarget
       /\ ClosesOnTarget
       /\ Abs(player'.speed - player.speed) <= AccelerationStep]_vars

\* C15 as the code has it: the same, except that in the tick in which the
\* boost ends the clamp cuts a speed above MAX_SPEED down to MAX_SPEED at once
C15_ConvergesAtFixedRateOrClamped ==
  [][NormalTick =>
       /\ TowardTarget
       /\ ClosesOnTarget
       /\ Abs(player'.speed - player.speed) <= AccelerationStep \/ BoostEndsAboveMax]_vars

\* a normal tick that has arrived at the target speed exactly, from below
C15_Witness ==
  /\ call.kind = "drive"
  /\ call.updates >= 2
  /\ Phase(player) = "Normal"
  /\ player.targetSpeed = AUTO_FORWARD_SPEED
  /\ player.speed = AUTO_FORWARD_SPEED
  /\ player.boostCooldownRemaining = 0
  /\ player.z < 0

\* C16: at the end of every tick in which the player is neither Stunned nor
\* Reversing, its velocity is (sin(heading) * speed, cos(heading) * speed) for
\* the heading and speed it then has
C16_VelocityFromHeading ==
  (EndOfTick /\ hist.updated /\ hist.phase0 = "Normal" /\ Phase(player) = "Normal")
    => /\ player.vx = Mul(player.speed, Sin(player.rotation))
       /\ player.vz = Mul(player.speed, Cos(player.rotation))

\* C17: when the police cars have been updated in a tick, the speed of each
\* lies in [INITIAL_SPEED, MAX_SPEED] = [18, 32], also in a tick in which its
\* building avoidance has fired
C17_PoliceSpeedClamped ==
  (game.pc = "traffic")
    => \A k \in 1..Len(enemies) :
         /\ enemies[k].speed >= ENEMY_INITIAL_SPEED
         /\ enemies[k].speed <= ENEMY_MAX_SPEED

\* the strategy C18 states for a strategy scalar v (1/1000): head-on below
\* 1/3, left flank in [1/3, 2/3), right flank from 2/3 on
StatedStrategy(v) ==
  IF 3 * v < 1000 THEN "headOn" ELSE IF 3 * v < 2000 THEN "leftFlank" ELSE "rightFlank"

\* C18: the strategy scalar of a police car is fixed at its spawn and lies in
\* [0, 1); the car pursues head-on when the scalar is below 1/3, on the left
\* flank when it is in [1/3, 2/3) and on the right flank from 2/3 on, and the
\* strategy of a car never changes
C18_StrategyFromScalar ==
  [][\A k \in 1..Len(enemies') :
       /\ strategyVariant(enemies'[k]) \in 0..999
       /\ strategy(enemies'[k]) = StatedStrategy(strategyVariant(enemies'[k]))
       /\ k <= Len(enemies) => /\ strategyVariant(enemies'[k]) = strategyVariant(enemies[k])
                               /\ strategy(enemies'[k]) = strategy(enemies[k])]_vars

\* the multiplier (1/1000) C19 states for the elapsed fraction p (1/1000) of
\* the reversing phase: 0 at 0, linear to 1 at 0.3, 1 until 0.7, linear to 0 at 1
StatedMultiplier(p) ==
  IF p < 300 THEN Div(p * 1000, 300)
  ELSE IF p > 700 THEN Div((1000 - p) * 1000, 300)
  ELSE 1000

\* the length (ms) of the reversing phase the last crash has started, and the
\* fraction (1/1000) of it that has elapsed when a reversing tick begins
ReverseDuration == IF hist.cause = "traffic" THEN 600 ELSE 800

ElapsedFraction == 1000 - Div(player.crashReverseTimer * 1000, ReverseDuration)

\* C19: in every Reversing tick the reverse speed is the maximum reverse speed
\* (12) times the multiplier for the elapsed fraction of the reversing phase,
\* after a building crash (0.8 s) and after a traffic crash (0.6 s) alike
\* (compared within 0.05, the rounding of the direction's normalisation)
C19_EasedReverseSpeed ==
  [][(/\ game.pc = "player"
      /\ player.isAlive /\ ~player.isTrapped
      /\ Phase(player) = "Reversing"
      /\ Phase(player') = "Reversing")
       => Abs(Hypot(player'.vx, player'.vz) - Mul(12000, StatedMultiplier(ElapsedFraction))) <= 50]_vars

\* the same for recoveries started by a building crash only
C19_EasedAfterBuildingCrash ==
  [][(/\ game.pc = "player"
      /\ player.isAlive /\ ~player.isTrapped
      /\ hist.cause = "building"
      /\ Phase(player) = "Reversing"
      /\ Phase(player') = "Reversing")
       => Abs(Hypot(player'.vx, player'.vz) - Mul(12000, StatedMultiplier(ElapsedFraction))) <= 50]_vars

\* C20: right after a player-building crash has been handled the player has
\* been moved along one axis only and its bounding box no longer overlaps the
\* footprint, padded by the player radius, of the building it hit
C20_PushedClearOfBuilding ==
  (call.kind = "crash" /\ call.hit)
    => /\ player.x = call.x0 \/ player.z = call.z0
       /\ ~checkAABBCollision(PlayerBox(player), PaddedBox(City[1], 1500))

\* the same with the box of the car without its safety padding (half extents
\* WIDTH / 2 and LENGTH / 2)
C20_CarBodyClearOfBuilding ==
  (call.kind = "crash" /\ call.hit)
    => /\ player.x = call.x0 \/ player.z = call.z0
       /\ ~checkAABBCollision(Box(player.x, player.z, PlayerHalfWidth - 500, PlayerHalfLength - 500),
                              PaddedBox(City[1], 1500))

\* twice the centre offset of box a from box b on x and on z
CentreDiffX(a, b) == (a.minx + a.maxx) - (b.minx + b.maxx)

CentreDiffZ(a, b) == (a.minz + a.maxz) - (b.minz + b.maxz)

\* the direction of an MTV for a centre offset d: its sign, and + when the
\* centres coincide
DirOrPlus(d) == IF d < 0 THEN -1 ELSE 1

\* the MTV m of the boxes of a0 and b0 is the one C21 states, dir giving the
\* direction for a centre offset
StatedMTV(a0, b0, m, dir(_)) ==
  IF OverlapX(a0, b0) > 0 /\ OverlapZ(a0, b0) > 0
  THEN /\ m.hit
       /\ IF OverlapX(a0, b0) < OverlapZ(a0, b0)
          THEN m.z = 0 /\ m.x = dir(CentreDiffX(BoxOf(a0), BoxOf(b0))) * OverlapX(a0, b0)
          ELSE m.x = 0 /\ m.z = dir(CentreDiffZ(BoxOf(a0), BoxOf(b0))) * OverlapZ(a0, b0)
  ELSE ~m.hit

\* C21 as stated: for boxes overlapping on both axes the separation vector
\* lies on one axis (x when the x overlap is strictly smaller, else z), its
\* magnitude is the overlap on that axis and its sign is the sign of
\* (centre of A - centre of B) on that axis; otherwise the result is null
C21_LeastAxisMTV ==
  call.kind = "pair" /\ call.calls > 0 =>
    StatedMTV(call.a0, call.b0, computeMTV2D(BoxOf(call.a0), BoxOf(call.b0)), Sign)

\* C21 as the code has it: the same, the direction being + when the two
\* centres coincide on the chosen axis
C21_LeastAxisMTVPlusOnTie ==
  call.kind = "pair" /\ call.calls > 0 =>
    StatedMTV(call.a0, call.b0, computeMTV2D(BoxOf(call.a0), BoxOf(call.b0)), DirOrPlus)

\* a resolved pair that overlapped less on x than on z, A to the left of B
C21_Witness ==
  /\ call.kind = "pair"
  /\ call.calls > 0
  /\ call.hit
  /\ OverlapX(call.a0, call.b0) > 0
  /\ OverlapX(call.a0, call.b0) < OverlapZ(call.a0, call.b0)
  /\ CentreDiffX(BoxOf(call.a0), BoxOf(call.b0)) < 0

\* the collision normal of the pair (a0, b0): the signs of its MTV
NormalX(a0, b0) == Sign(computeMTV2D(BoxOf(a0), BoxOf(b0)).x)

NormalZ(a0, b0) == Sign(computeMTV2D(BoxOf(a0), BoxOf(b0)).z)

\* body m moves along the collision normal only, towards the body at rest r;
\* towards = -1 for body A (the normal points from B to A) and 1 for body B
ApproachesAtRest(m, r, a0, b0, towards) ==
  /\ r.vx = 0 /\ r.vz = 0
  /\ m.vx * NormalX(a0, b0) + m.vz * NormalZ(a0, b0) # 0
  /\ Sign(m.vx * NormalX(a0, b0) + m.vz * NormalZ(a0, b0)) = towards
  /\ NormalX(a0, b0) = 0 => m.vx = 0
  /\ NormalZ(a0, b0) = 0 => m.vz = 0

\* C22: two bodies of equal mass collide with elasticity 1, one at rest and
\* the other approaching along the collision normal: after the resolution the
\* moving body has the velocity of the body at rest (zero) and the body at
\* rest has the incoming velocity
C22_VelocitiesExchanged ==
  (/\ call.kind = "impulse" /\ call.calls > 0 /\ call.hit
   /\ call.o.elasticity = 1000 /\ call.o.massA = call.o.massB
   /\ \/ ApproachesAtRest(call.a0, call.b0, call.a0, call.b0, -1)
      \/ ApproachesAtRest(call.b0, call.a0, call.a0, call.b0, 1))
    => /\ player.vx = call.b0.vx /\ player.vz = call.b0.vz
       /\ enemies[1].vx = call.a0.vx /\ enemies[1].vz = call.a0.vz

\* the player has run into a police car at rest and has handed its velocity over
C22_Witness ==
  /\ call.kind = "impulse" /\ call.calls = 1 /\ call.hit
  /\ call.o.elasticity = 1000 /\ call.o.friction = 600
  /\ ApproachesAtRest(call.a0, call.b0, call.a0, call.b0, -1)
  /\ call.a0.vx = 20000
  /\ enemies[1].vx = 20000
  /\ player.vx = 0

\* C23: after a two-body impulse resolution the velocity component of each
\* body tangential to the collision normal is no larger in magnitude than
\* before, for each of the normals +x, -x, +z, -z and every friction in [0, 1]
C23_TangentialNotAmplified ==
  (call.kind = "impulse" /\ call.calls > 0 /\ call.hit)
    => /\ NormalX(call.a0, call.b0) # 0
            => /\ Abs(player.vz) <= Abs(call.a0.vz)
               /\ Abs(enemies[1].vz) <= Abs(call.b0.vz)
       /\ NormalZ(call.a0, call.b0) # 0
            => /\ Abs(player.vx) <= Abs(call.a0.vx)
               /\ Abs(enemies[1].vx) <= Abs(call.b0.vx)

\* C30: the position correction of an overlapping pair moves each body along
\* the chosen separation axis only: the coordinate on the other axis is the
\* same after the call as before it, for both bodies
C30_OtherAxisUntouched ==
  (call.kind = "pair" /\ call.calls > 0 /\ call.hit)
    => IF OverlapX(call.a0, call.b0) < OverlapZ(call.a0, call.b0)
       THEN PairA.z = call.a0.z /\ PairB.z = call.b0.z
       ELSE PairA.x = call.a0.x /\ PairB.x = call.b0.x

\* the player and the centre of building k are closer than 0.01
AtBuildingCentre(k) == Hypot(player.x - buildings[k].x, player.z - buildings[k].z) < 10

\* the player and police car i are closer than 0.01
AtPoliceCar(i) == Hypot(player.x - enemies[i].x, player.z - enemies[i].z) < 10

\* the loop body of the separation step run on the present state against
\* police car 1
FirstSeparation ==
  separateFrom([p |-> player, es |-> enemies], 1, [x |-> player.x, z |-> player.z],
               PlayerBox(player), buildings)

\* the loop body pushes the pair apart along (1, 0): the player forward on x,
\* the police car backward on x, neither of them on z
PushedApartAlongX(r) ==
  /\ r.p.x > player.x
  /\ r.p.z = player.z
  /\ r.es[1].x < enemies[1].x
  /\ r.es[1].z = enemies[1].z

\* what a step must leave in a body for it to be a number everywhere
Finite(body) == {body.x, body.z, body.vx, body.vz, body.speed} \subseteq Int

\* C24: a player closer than 0.01 to the police car, or to the centre of the
\* building it hits, is separated along the fixed normal (1, 0) (the player
\* moves forward on x and not on z), and every position, velocity and speed
\* after the step is a number
C24_FallbackNormal ==
  [][/\ call.kind = "separation" /\ AtPoliceCar(1)
        => PushedApartAlongX(FirstSeparation) /\ Finite(enemies'[1])
     /\ call.kind = "crash" /\ call'.hit /\ (\E k \in 1..Len(buildings) : AtBuildingCentre(k))
        => player'.x > player.x /\ player'.z = player.z
     /\ Finite(player')]_vars

\* C24, the police half alone: a police car closer than 0.01 to the player is
\* pushed along -x and the player along +x, neither of them on z, and the
\* whole step leaves numbers in both
C24_PoliceFallbackNormal ==
  [][call.kind = "separation" /\ AtPoliceCar(1)
       => /\ PushedApartAlongX(FirstSeparation)
          /\ Finite(player')
          /\ Finite(enemies'[1])]_vars

\* C25: a boost that starts after an earlier one has ended starts in an update
\* that brings the simulation time since that end to BOOST_COOLDOWN or more,
\* and the boost is never active while a cooldown is pending
C25_BoostCooldown ==
  call.kind = "boost" =>
    /\ call.started /\ call.sinceEnd >= 0 => call.sinceEnd >= BOOST_COOLDOWN
    /\ ~(player.boostActive /\ player.boostCooldownRemaining > 0)

\* a second boost has just started, the key having been held through the
\* whole cooldown of the first
C25_Witness ==
  /\ call.kind = "boost"
  /\ call.started
  /\ call.sinceEnd >= BOOST_COOLDOWN
  /\ player.boostActive

\* the steps of Game._update that follow the player's update in a tick
AfterPlayerUpdate == {"enemies", "traffic", "collision", "wanted", "finish"}

\* C26: a player declared Trapped in the collision step of tick k is dead by
\* the end of its update in tick k+1 (a trapped player still alive exists only
\* from that collision step to the next player update), the game-over
\* transition runs in the tick of the death (a dead player in a session still
\* playing exists only inside that tick), and it runs once per session however
\* often gameOver is invoked afterwards
C26_TrappedEndsSession ==
  /\ player.isTrapped /\ player.isAlive => game.pc \in {"wanted", "finish", "player"}
  /\ ~player.isAlive /\ game.isPlaying => game.pc \in AfterPlayerUpdate
  /\ ~player.isAlive => player.isTrapped
  /\ game.gameOvers = (IF game.isPlaying THEN 0 ELSE 1)

\* the session of a trapped player has ended and gameOver has been invoked
\* twice more since
C26_Witness ==
  /\ player.isTrapped
  /\ ~player.isAlive
  /\ ~game.isPlaying
  /\ game.gameOvers = 1
  /\ game.lateCalls = 2

\* what _enforcePlayerPoliceSeparation leaves for the contact check that
\* follows it in the same collision update
Separated == enforcePlayerPoliceSeparation(player, enemies, buildings)

\* the boxes of body p and of some police car of es touch
PoliceContact(p, es) ==
  \E k \in 1..Len(es) : checkAABBCollision(PlayerBox(p), EnemyBox(es[k]))

\* the collision update at hand runs _handlePlayerEnemyCollision: the cooldown
\* has run out and the boxes touch when _checkPlayerEnemyCollision looks
ContactHandled ==
  /\ game.pc = "collision"
  /\ cs.collisionCooldown - game.dt <= 0
  /\ PoliceContact(Separated.p, Separated.es)

ClearOfBuildings(e) == firstHit(EnemyBox(e), buildings, 2000, 1) = 0

\* C28: a police car whose box overlaps no padded building footprint at the
\* start of its update overlaps none at the end of it
C28_PoliceStaysClear ==
  [][game.pc = "enemies" \/ call.kind = "avoid" =>
       \A k \in 1..Len(enemies) :
         ClearOfBuildings(enemies[k]) => ClearOfBuildings(enemies'[k])]_vars

\* the centre distance of the player and police car k
PoliceDistance(k) == Hypot(player.x - enemies[k].x, player.z - enemies[k].z)

\* how far the step from the player position (x0, z0) to (x1, z1) goes along
\* the direction from police car k (where it stands now) to the player
AwayFrom(k, x0, z0, x1, z1) ==
  (x1 - x0) * (player.x - enemies[k].x) + (z1 - z0) * (player.z - enemies[k].z)

\* the player after the first of the two passes of the separation step at hand
AfterFirstPass ==
  separationPass([p |-> player, es |-> enemies], 1, [x |-> player.x, z |-> player.z],
                 PlayerBox(player), buildings).p

\* C29: the separation step leaves the player displaced away from every police
\* car that was closer than minDist (no two of them on opposite sides of the
\* player), and its second pass does not take the player back toward any of
\* them
C29_EveryPushKept ==
  [][call.kind = "separation" =>
       \A k \in 1..Len(enemies) :
         PoliceDistance(k) > 10 /\ PoliceDistance(k) < minDist =>
           /\ AwayFrom(k, player.x, player.z, player'.x, player'.z) > 0
           /\ AwayFrom(k, AfterFirstPass.x, AfterFirstPass.z, player'.x, player'.z) >= 0]_vars

====
